---- MODULE Spec2Model ----
(***************************************************************************)
(* Paper-trading ledger of stock-ai: execute_buy, execute_sell and         *)
(* get_portfolio_summary (src/trading.py) over the SQLite ledger           *)
(* (src/database.py), called from overlapping agent cycles (src/agent.py,  *)
(* src/main.py).                                                           *)
(*                                                                         *)
(* Units.  Money is an integer number of cents (the code rounds every      *)
(* monetary value with round(x, 2)).  Share counts are integers in units   *)
(* of 1/ShareScale share; round(x, 4) of the code leaves them unchanged.   *)
(* A product shares * price is therefore in units of 1/ShareScale cent.    *)
(* A quote is a set of prices: {} when the quote source omits the symbol,  *)
(* {p} when it prices it.  The portfolio table is a function whose domain  *)
(* is the set of symbols that have a row.                                  *)
(*                                                                         *)
(* Every "await" of a database or quote call is a suspension point of the  *)
(* asyncio event loop: one action is one such call together with the       *)
(* synchronous code that follows it up to the next await.                  *)
(***************************************************************************)
EXTENDS Integers, Sequences, FiniteSets, TLC

VARIABLES
    cash,          \* config row 'cash_balance'
    portfolio,     \* table portfolio: symbol -> [shares, avg_cost]
    trades,        \* table trades, in insertion order
    risk_profile,  \* config row 'risk_profile' ("unset" when there is no row)
    pc,            \* per task: the await it is suspended at
    call,          \* per task: the operation it runs and its arguments
    loc,           \* per task: the local variables of the running call
    result,        \* per task: the outcome of its last finished call
    wrote,         \* per task: the tables its current call has committed to, in order
    nCalls,        \* number of requests (orders, summaries, settings) so far
    thoughts,      \* table thoughts, in insertion order (the id is the position)
    running,       \* agent.py _running
    loop,          \* the scheduled task (_delayed_agent_start, start_agent_loop)
    agent,         \* per task: where its run_agent_cycle stands
    stream         \* the event generator of one client of /api/stream

vars == <<cash, portfolio, trades, risk_profile, pc, call, loc, result, wrote,
          nCalls, thoughts, running, loop, agent, stream>>

agentVars == <<thoughts, running, loop, agent, stream>>

ledger == <<cash, portfolio, trades>>

----------------------------------------------------------------------------
(* Bounds of the model *)

MaxCalls == 2
\* thoughts recorded while one client is connected
MaxThoughts == 14
\* cycles the scheduled loop starts
MaxCycles == 2
\* action blocks in one response of the LLM
MaxActions == 2
StartingBalance == 10000

Tasks == {"cycle1", "cycle2"}
OrderSymbols == {"AAA", "ZZZ", "ZZZZ"}
FillerSymbols == {"F1", "F2", "F3", "F4", "F5"}
\* the symbol of the worked example: orders of whole shares at one quote
ScenarioSymbols == {"AAPL"}
\* the symbol of the retried order: a low-priced stock bought in whole shares
RetrySymbols == {"PNY"}
Symbols == OrderSymbols \cup FillerSymbols \cup ScenarioSymbols \cup RetrySymbols
\* the prices the quote source may report; none at all for ZZZZ
PricesOf == [AAA |-> {100, 5500, 10100}, ZZZ |-> {101}, ZZZZ |-> {}, AAPL |-> {15000},
             PNY |-> {113}]
FillerPrice == {100}
Prices == PricesOf["AAA"] \cup PricesOf["ZZZ"] \cup FillerPrice
\* execute_action passes the share count of the decision layer unvalidated
\* (0 when the action omits it): -9, 0, 0.25 and 9 shares at ShareScale 4
ShareCounts == {-36, 0, 1, 36}
ChangePcts == {0, 150}
SymbolOrder == <<"AAA", "AAPL", "F1", "F2", "F3", "F4", "F5", "PNY",
                "ZZZ", "ZZZZ">>

ShareScale == 4

(* Program constants *)

SLIPPAGE_PCT == 1
\* os.getenv("STARTING_BALANCE", "100000"), in cents
DefaultBalance == 10000000
\* a STARTING_BALANCE of 327.70 set in the environment, in cents
RetryBalance == 32770
SlippageScale == 10000

----------------------------------------------------------------------------
(* Arithmetic *)

\* round(x, k) of a float: to the nearest representable step; on an exact
\* decimal tie the result depends on the binary value of the float, which
\* may lie on either side, so both neighbours are possible results.
RoundSet(n, d) ==
    LET num == IF d < 0 THEN -n ELSE n
        den == IF d < 0 THEN -d ELSE d
        q == num \div den
        r == num % den
    IN  IF 2 * r < den THEN {q}
        ELSE IF 2 * r > den THEN {q + 1}
        ELSE {q, q + 1}

\* round(x, k) as one function: the same float always rounds the same way.
Round(n, d) == CHOOSE x \in RoundSet(n, d) : TRUE

SumOver(S, f(_)) ==
    LET RECURSIVE Go(_)
        Go(T) == IF T = {} THEN 0
                 ELSE LET x == CHOOSE y \in T : TRUE
                      IN  f(x) + Go(T \ {x})
    IN  Go(S)

\* the slippage of a buy taken off the price instead of added to it
BuyExecPrice_Discount(price) ==
    RoundSet(price * (SlippageScale - SLIPPAGE_PCT), SlippageScale)

\* exec_price = round(price * (1 + SLIPPAGE_PCT / 100), 2)
BuyExecPrice(price) ==
    RoundSet(price * (SlippageScale + SLIPPAGE_PCT), SlippageScale)

\* exec_price = round(price * (1 - SLIPPAGE_PCT / 100), 2)
SellExecPrice(price) ==
    RoundSet(price * (SlippageScale - SLIPPAGE_PCT), SlippageScale)

\* total = round(exec_price * shares, 2)
OrderTotal(exec_price, shares) == RoundSet(exec_price * shares, ShareScale)

----------------------------------------------------------------------------
(* Risk policy (trading.py RISK_PROFILES) *)

RISK_PROFILES ==
    [safe       |-> [max_position_pct |-> 10, min_cash_pct |-> 30, max_holdings |-> 5],
     moderate   |-> [max_position_pct |-> 20, min_cash_pct |-> 15, max_holdings |-> 10],
     aggressive |-> [max_position_pct |-> 35, min_cash_pct |-> 5,  max_holdings |-> 15]]

ProfileNames == {"safe", "moderate", "aggressive"}

\* RISK_PROFILES.get(risk_profile, RISK_PROFILES["moderate"])
Limits(profile) ==
    IF profile \in ProfileNames THEN RISK_PROFILES[profile]
    ELSE RISK_PROFILES["moderate"]

----------------------------------------------------------------------------
(* Ledger store (database.py) *)

\* get_risk_profile answering "safe" when no profile is stored
get_risk_profile_SafeDefault ==
    IF risk_profile = "unset" THEN "safe" ELSE risk_profile

\* get_risk_profile: the stored value, "moderate" when there is no row
get_risk_profile == IF risk_profile = "unset" THEN "moderate" ELSE risk_profile

\* get_portfolio: SELECT * FROM portfolio WHERE shares > 0
get_portfolio ==
    [s \in {t \in DOMAIN portfolio : portfolio[t].shares > 0} |-> portfolio[s]]

\* get_holding: the row of the symbol, or None (the empty set)
get_holding(symbol) ==
    IF symbol \in DOMAIN portfolio THEN {portfolio[symbol]} ELSE {}

\* set_cash_balance: INSERT OR REPLACE the cash row, committed at once
set_cash_balance(p, amount) ==
    /\ cash' = amount
    /\ wrote' = [wrote EXCEPT ![p] = Append(@, "cash")]

\* update_holding storing the row whatever the share count
update_holding_KeepsRow(p, symbol, shares, avg_cost) ==
    /\ portfolio' =
          [s \in DOMAIN portfolio \cup {symbol} |->
              IF s = symbol THEN [shares |-> shares, avg_cost |-> avg_cost]
              ELSE portfolio[s]]
    /\ wrote' = [wrote EXCEPT ![p] = Append(@, "holding")]

\* update_holding deleting the row only when the share count is exactly 0
update_holding_DeleteAtZero(p, symbol, shares, avg_cost) ==
    /\ portfolio' =
          IF shares = 0
          THEN [s \in DOMAIN portfolio \ {symbol} |-> portfolio[s]]
          ELSE [s \in DOMAIN portfolio \cup {symbol} |->
                  IF s = symbol THEN [shares |-> shares, avg_cost |-> avg_cost]
                  ELSE portfolio[s]]
    /\ wrote' = [wrote EXCEPT ![p] = Append(@, "holding")]

\* update_holding: DELETE when shares <= 0, else upsert; committed at once
update_holding(p, symbol, shares, avg_cost) ==
    /\ portfolio' =
          IF shares <= 0
          THEN [s \in DOMAIN portfolio \ {symbol} |-> portfolio[s]]
          ELSE [s \in DOMAIN portfolio \cup {symbol} |->
                  IF s = symbol THEN [shares |-> shares, avg_cost |-> avg_cost]
                  ELSE portfolio[s]]
    /\ wrote' = [wrote EXCEPT ![p] = Append(@, "holding")]

\* add_trade inserting its row twice
add_trade_Twice(p, symbol, action, shares, price, total) ==
    LET row == [symbol |-> symbol, action |-> action, shares |-> shares,
                price |-> price, total |-> total]
    IN  /\ trades' = Append(Append(trades, row), row)
        /\ wrote' = [wrote EXCEPT ![p] = Append(@, "trade")]

\* add_trade: INSERT one row into trades; committed at once
add_trade(p, symbol, action, shares, price, total) ==
    /\ trades' = Append(trades, [symbol |-> symbol, action |-> action,
                                 shares |-> shares, price |-> price,
                                 total |-> total])
    /\ wrote' = [wrote EXCEPT ![p] = Append(@, "trade")]

----------------------------------------------------------------------------
(* Quote source (market_data.py fetch_quotes) *)

\* What the source may answer for one symbol: nothing, or one price.
QuoteAnswers(symbol) ==
    IF symbol \in DOMAIN PricesOf
    THEN {{}} \cup {{q} : q \in PricesOf[symbol]}
    ELSE {{q} : q \in FillerPrice}

\* The answers fetch_quotes may give for a list of symbols.
FetchAnswers(symbols) ==
    {a \in [symbols -> UNION {QuoteAnswers(s) : s \in symbols}] :
        \A s \in symbols : a[s] \in QuoteAnswers(s)}

----------------------------------------------------------------------------
(* Task-local state *)

EmptyTable == [s \in {} |-> [shares |-> 0, avg_cost |-> 0]]

NoLocals ==
    [exec_price |-> 0, total |-> 0, cash |-> 0, profile |-> "unset",
     snap |-> EmptyTable, market_value |-> 0, new_cash |-> 0,
     old_shares |-> 0, old_avg |-> 0, new_shares |-> 0, new_avg |-> 0,
     pnl |-> 0]

NoResult ==
    [kind |-> "none", price |-> 0, total |-> 0, new_cash |-> 0,
     new_shares |-> 0, avg_cost |-> 0, pnl |-> 0, max_shares |-> {},
     cash |-> 0, holdings |-> <<>>, total_value |-> 0, total_invested |-> 0,
     total_market_value |-> 0, total_pnl |-> 0, total_pnl_pct |-> 0]

NoCall == [op |-> "none", symbol |-> "AAA", shares |-> 0]

Outcome(kind) == [NoResult EXCEPT !.kind = kind]

RejectKinds ==
    {"quote_unavailable", "insufficient_cash", "risk_position",
     "risk_cash_reserve", "risk_max_holdings", "no_position",
     "insufficient_shares"}

\* return: the call ends and hands its result dict to the caller
Return(p, res) ==
    /\ pc' = [pc EXCEPT ![p] = "idle"]
    /\ result' = [result EXCEPT ![p] = res]
    /\ loc' = [loc EXCEPT ![p] = NoLocals]

Goto(p, label, locals) ==
    /\ pc' = [pc EXCEPT ![p] = label]
    /\ loc' = [loc EXCEPT ![p] = locals]
    /\ UNCHANGED result

----------------------------------------------------------------------------
(* Agent layer at rest (agent.py, main.py) *)

\* no cycle is running in the task
NoCycle ==
    [at |-> "idle", todo |-> 0, calls |-> 0, reports |-> 0, failed |-> FALSE,
     faults |-> 0]

\* the scheduled task has not been created
LoopOff == [at |-> "off", cycles |-> 0, stopped |-> FALSE]

\* no client is connected
NoStream == [last_id |-> 0, sent |-> <<>>]

\* module state of agent.py at import (_running = False), an empty thoughts
\* table, no client
AgentOff ==
    /\ thoughts = <<>>
    /\ running = FALSE
    /\ loop = LoopOff
    /\ agent = [p \in Tasks |-> NoCycle]
    /\ stream = NoStream

----------------------------------------------------------------------------
(* Initial state: the ledger init_db leaves, or the ledger a restart finds *)

\* init_db on an empty database: the starting balance, nothing else
FreshLedger ==
    [cash |-> StartingBalance, portfolio |-> EmptyTable, trades |-> <<>>,
     risk_profile |-> "unset"]

\* The ledger a restart finds after the profile was set to "safe" and one
\* unit of each filler symbol was bought at its quote, one order at a time.
FillerOrder == <<"F1", "F2", "F3", "F4", "F5">>

FillerTotal ==
    LET price == CHOOSE q \in FillerPrice : TRUE
        exec_price == CHOOSE x \in BuyExecPrice(price) : TRUE
    IN  [exec_price |-> exec_price,
         total |-> CHOOSE t \in OrderTotal(exec_price, 1) : TRUE]

DiversifiedLedger ==
    [cash |-> StartingBalance - Len(FillerOrder) * FillerTotal.total,
     portfolio |-> [s \in FillerSymbols |->
                      [shares |-> 1, avg_cost |-> FillerTotal.exec_price]],
     trades |-> [k \in 1..Len(FillerOrder) |->
                   [symbol |-> FillerOrder[k], action |-> "buy", shares |-> 1,
                    price |-> FillerTotal.exec_price,
                    total |-> FillerTotal.total]],
     risk_profile |-> "safe"]

\* The ledger a restart finds after one accepted buy of the largest share
\* count of ZZZ at its quote, on the fresh ledger.
OpenOrder ==
    LET price == CHOOSE q \in PricesOf["ZZZ"] : TRUE
        shares == CHOOSE n \in ShareCounts : \A m \in ShareCounts : m <= n
        exec_price == CHOOSE x \in BuyExecPrice(price) : TRUE
    IN  [symbol |-> "ZZZ", action |-> "buy", shares |-> shares,
         price |-> exec_price,
         total |-> CHOOSE t \in OrderTotal(exec_price, shares) : TRUE]

OpenLedger ==
    [cash |-> StartingBalance - OpenOrder.total,
     portfolio |-> [s \in {"ZZZ"} |->
                      [shares |-> OpenOrder.shares, avg_cost |-> OpenOrder.price]],
     trades |-> <<OpenOrder>>,
     risk_profile |-> "unset"]

Init ==
    /\ \E l \in {FreshLedger, DiversifiedLedger, OpenLedger} :
          /\ cash = l.cash
          /\ portfolio = l.portfolio
          /\ trades = l.trades
          /\ risk_profile = l.risk_profile
    /\ pc = [p \in Tasks |-> "idle"]
    /\ call = [p \in Tasks |-> NoCall]
    /\ loc = [p \in Tasks |-> NoLocals]
    /\ result = [p \in Tasks |-> NoResult]
    /\ wrote = [p \in Tasks |-> <<>>]
    /\ nCalls = 0
    /\ AgentOff

\* The two concurrent cycles (the scheduled loop, a manual trigger) run the
\* same code; they are numbered in the order of their first request.
Numbered(p) == p = "cycle2" => call["cycle1"].op # "none"

\* execute_action (agent.py): a cycle places one order
StartOrder(p) ==
    /\ pc[p] = "idle"
    /\ Numbered(p)
    /\ nCalls < MaxCalls
    /\ nCalls' = nCalls + 1
    /\ \E op \in {"buy", "sell"}, symbol \in OrderSymbols, shares \in ShareCounts :
          /\ call' = [call EXCEPT ![p] =
                        [op |-> op, symbol |-> symbol, shares |-> shares]]
          /\ pc' = [pc EXCEPT ![p] =
                      IF op = "buy" THEN "buy_fetch_quotes" ELSE "sell_get_holding"]
    /\ loc' = [loc EXCEPT ![p] = NoLocals]
    /\ result' = [result EXCEPT ![p] = NoResult]
    /\ wrote' = [wrote EXCEPT ![p] = <<>>]
    /\ UNCHANGED <<cash, portfolio, trades, risk_profile>>
    /\ UNCHANGED agentVars

----------------------------------------------------------------------------
(* execute_buy (trading.py 22-116) *)

\* lines 25-32 reading a missing quote as a price of zero instead of
\* rejecting the order
BuyFetchQuotes_ZeroPrice(p) ==
    /\ pc[p] = "buy_fetch_quotes"
    /\ \E answer \in QuoteAnswers(call[p].symbol) :
       \E price \in (IF answer = {} THEN {0} ELSE answer) :
       \E exec_price \in BuyExecPrice(price) :
       \E total \in OrderTotal(exec_price, call[p].shares) :
          Goto(p, "buy_get_cash",
               [loc[p] EXCEPT !.exec_price = exec_price, !.total = total])
    /\ UNCHANGED <<cash, portfolio, trades, risk_profile, call, wrote,
                   nCalls>>
    /\ UNCHANGED agentVars

\* lines 25-32: fetch the quote, price the order
BuyFetchQuotes(p) ==
    /\ pc[p] = "buy_fetch_quotes"
    /\ \E answer \in QuoteAnswers(call[p].symbol) :
          IF answer = {}
          THEN Return(p, Outcome("quote_unavailable"))
          ELSE \E price \in answer :
               \E exec_price \in BuyExecPrice(price) :
               \E total \in OrderTotal(exec_price, call[p].shares) :
                  Goto(p, "buy_get_cash",
                       [loc[p] EXCEPT !.exec_price = exec_price, !.total = total])
    /\ UNCHANGED <<cash, portfolio, trades, risk_profile, call, wrote,
                   nCalls>>
    /\ UNCHANGED agentVars

\* max_shares = int(cash / exec_price); reported only when positive
Affordable(balance, exec_price) ==
    LET max_shares == balance \div exec_price
    IN  IF max_shares <= 0 THEN {} ELSE {max_shares}

\* lines 35-40 debiting the cash as soon as the order is affordable, before
\* the risk limits are applied
BuyGetCash_DebitFirst(p) ==
    /\ pc[p] = "buy_get_cash"
    /\ IF loc[p].total > cash
       THEN /\ Return(p, [Outcome("insufficient_cash") EXCEPT
                            !.max_shares = Affordable(cash, loc[p].exec_price)])
            /\ UNCHANGED <<cash, wrote>>
       ELSE /\ set_cash_balance(p, cash - loc[p].total)
            /\ Goto(p, "buy_get_risk_profile", [loc[p] EXCEPT !.cash = cash])
    /\ UNCHANGED <<portfolio, trades, risk_profile, call, nCalls>>
    /\ UNCHANGED agentVars

\* lines 35-40: read the cash balance, check affordability
BuyGetCash(p) ==
    /\ pc[p] = "buy_get_cash"
    /\ IF loc[p].total > cash
       THEN Return(p, [Outcome("insufficient_cash") EXCEPT
                         !.max_shares = Affordable(cash, loc[p].exec_price)])
       ELSE Goto(p, "buy_get_risk_profile", [loc[p] EXCEPT !.cash = cash])
    /\ UNCHANGED <<cash, portfolio, trades, risk_profile, call, wrote,
                   nCalls>>
    /\ UNCHANGED agentVars

\* lines 43-44: read the active profile
BuyGetRiskProfile(p) ==
    /\ pc[p] = "buy_get_risk_profile"
    /\ Goto(p, "buy_get_portfolio", [loc[p] EXCEPT !.profile = get_risk_profile])
    /\ UNCHANGED <<cash, portfolio, trades, risk_profile, call, wrote,
                   nCalls>>
    /\ UNCHANGED agentVars

\* line 46: read the open positions
BuyGetPortfolio(p) ==
    /\ pc[p] = "buy_get_portfolio"
    /\ Goto(p, "buy_fetch_all_quotes", [loc[p] EXCEPT !.snap = get_portfolio])
    /\ UNCHANGED <<cash, portfolio, trades, risk_profile, call, wrote,
                   nCalls>>
    /\ UNCHANGED agentVars

\* sum(h.shares * all_quotes.get(h.symbol, {}).get("price", h.avg_cost)),
\* in units of 1/ShareScale cent
MarketValue(snap, answers) ==
    LET value(s) ==
            snap[s].shares *
              (IF answers[s] = {} THEN snap[s].avg_cost
               ELSE CHOOSE q \in answers[s] : TRUE)
    IN  SumOver(DOMAIN snap, value)

\* lines 47-52: quote every open position, value the portfolio
BuyFetchAllQuotes(p) ==
    /\ pc[p] = "buy_fetch_all_quotes"
    /\ \E answers \in FetchAnswers(DOMAIN loc[p].snap \cup {call[p].symbol}) :
          Goto(p, "buy_check_limits",
               [loc[p] EXCEPT !.market_value = MarketValue(loc[p].snap, answers)])
    /\ UNCHANGED <<cash, portfolio, trades, risk_profile, call, wrote,
                   nCalls>>
    /\ UNCHANGED agentVars

\* total_portfolio = cash + total_market_value, in units of 1/ShareScale cent
TotalPortfolio(balance, market_value) == balance * ShareScale + market_value

\* current_position_value leaving out the shares already held
CurrentPositionValue_NoHolding(existing, exec_price) == 0

\* current_position_value = existing.shares * exec_price (0 without a row)
CurrentPositionValue(existing, exec_price) ==
    IF existing = {} THEN 0
    ELSE (CHOOSE h \in existing : TRUE).shares * exec_price

\* new_position_value counting the order alone, not the shares already held
NewPositionValue_OrderOnly(existing, exec_price, total) == total * ShareScale

\* new_position_value = current_position_value + total_cost
NewPositionValue(existing, exec_price, total) ==
    CurrentPositionValue(existing, exec_price) + total * ShareScale

\* position_pct > limits.max_position_pct, with position_pct = 100 when
\* total_portfolio is not positive.  Both sides of new_position_value * 100 >
\* max_position_pct * total_portfolio are divided by 5, which divides 100 and
\* every max_position_pct of RISK_PROFILES, to stay within 32-bit integers.
PositionExceeded(limits, new_position_value, total_portfolio) ==
    IF total_portfolio > 0
    THEN new_position_value * 20
            > (limits.max_position_pct \div 5) * total_portfolio
    ELSE 100 > limits.max_position_pct

\* max additional shares: int(max_allowed / exec_price) if max_allowed > 0 else 0
MaxAdditional(limits, existing, exec_price, total_portfolio) ==
    LET allowed100 == total_portfolio * limits.max_position_pct
                        - 100 * CurrentPositionValue(existing, exec_price)
    IN  IF allowed100 > 0 THEN allowed100 \div (100 * ShareScale * exec_price)
        ELSE 0

\* the cash reserve tested on the cash before the order is paid for
CashReserveBreached_PreTrade(limits, balance, total, total_portfolio) ==
    IF total_portfolio > 0
    THEN balance * ShareScale * 20 < (limits.min_cash_pct \div 5) * total_portfolio
    ELSE 0 < limits.min_cash_pct

\* new_cash_pct < limits.min_cash_pct, with new_cash_pct = 0 when
\* total_portfolio is not positive.  Both sides of new_cash * 100 <
\* min_cash_pct * total_portfolio are divided by 5, which divides 100 and
\* every min_cash_pct of RISK_PROFILES, to stay within 32-bit integers.
CashReserveBreached(limits, balance, total, total_portfolio) ==
    IF total_portfolio > 0
    THEN (balance - total) * ShareScale * 20
            < (limits.min_cash_pct \div 5) * total_portfolio
    ELSE 0 < limits.min_cash_pct

\* the holdings limit tested with > in place of >=
MaxHoldingsReached_Strict(limits, snap, symbol) ==
    LET distinct_symbols == {s \in DOMAIN snap : snap[s].shares > 0}
    IN  /\ symbol \notin distinct_symbols
        /\ Cardinality(distinct_symbols) > limits.max_holdings

\* symbol not in distinct_symbols and len(distinct_symbols) >= max_holdings
MaxHoldingsReached(limits, snap, symbol) ==
    LET distinct_symbols == {s \in DOMAIN snap : snap[s].shares > 0}
    IN  /\ symbol \notin distinct_symbols
        /\ Cardinality(distinct_symbols) >= limits.max_holdings

\* The verdict of lines 55-85 on the values the call has read.
BuyVerdict(limits, balance, snap, market_value, existing, symbol, exec_price, total) ==
    LET total_portfolio == TotalPortfolio(balance, market_value)
    IN  IF PositionExceeded(limits,
                            NewPositionValue(existing, exec_price, total),
                            total_portfolio)
        THEN "risk_position"
        ELSE IF CashReserveBreached(limits, balance, total, total_portfolio)
        THEN "risk_cash_reserve"
        ELSE IF MaxHoldingsReached(limits, snap, symbol)
        THEN "risk_max_holdings"
        ELSE "accept"

\* position_pct and new_cash_pct are floats compared with the limit as they
\* come: when the exact value equals the limit, the float may fall on either
\* side of it (1237.38 / 12373.8 * 100 is 10.000000000000002).
PositionTie(limits, new_position_value, total_portfolio) ==
    /\ total_portfolio > 0
    /\ new_position_value * 20 = (limits.max_position_pct \div 5) * total_portfolio

ReserveTie(limits, balance, total, total_portfolio) ==
    /\ total_portfolio > 0
    /\ (balance - total) * ShareScale * 20
          = (limits.min_cash_pct \div 5) * total_portfolio

\* The verdicts lines 55-85 may reach on the values the call has read: the
\* one of exact arithmetic, and at a tie with a limit the rejection for it.
BuyVerdicts(limits, balance, snap, market_value, existing, symbol, exec_price, total) ==
    LET total_portfolio == TotalPortfolio(balance, market_value)
        new_position_value == NewPositionValue(existing, exec_price, total)
    IN  {BuyVerdict(limits, balance, snap, market_value, existing, symbol,
                    exec_price, total)}
        \cup (IF PositionTie(limits, new_position_value, total_portfolio)
              THEN {"risk_position"} ELSE {})
        \cup (IF /\ ReserveTie(limits, balance, total, total_portfolio)
                 /\ ~PositionExceeded(limits, new_position_value, total_portfolio)
              THEN {"risk_cash_reserve"} ELSE {})

\* new_cash with the sign of total_cost reversed
BuyNewCash_Credit(balance, total) == balance + total

\* new_cash = round(cash - total_cost, 2): both are whole cents
BuyNewCash(balance, total) == balance - total

\* lines 55-88: read the holding, apply the three limits, compute new_cash
BuyCheckLimits(p) ==
    /\ pc[p] = "buy_check_limits"
    /\ LET l == loc[p]
           limits == Limits(l.profile)
           existing == get_holding(call[p].symbol)
       IN  \E verdict \in BuyVerdicts(limits, l.cash, l.snap, l.market_value,
                                      existing, call[p].symbol, l.exec_price,
                                      l.total) :
           IF verdict = "accept"
           THEN Goto(p, "buy_set_cash",
                     [l EXCEPT !.new_cash = BuyNewCash(l.cash, l.total)])
           ELSE IF verdict = "risk_position"
           THEN Return(p, [Outcome(verdict) EXCEPT !.max_shares =
                            {MaxAdditional(limits, existing, l.exec_price,
                                           TotalPortfolio(l.cash, l.market_value))}])
           ELSE Return(p, Outcome(verdict))
    /\ UNCHANGED <<cash, portfolio, trades, risk_profile, call, wrote,
                   nCalls>>
    /\ UNCHANGED agentVars

\* line 89: write the cash balance
BuySetCash(p) ==
    /\ pc[p] = "buy_set_cash"
    /\ set_cash_balance(p, loc[p].new_cash)
    /\ Goto(p, "buy_get_holding", loc[p])
    /\ UNCHANGED <<portfolio, trades, risk_profile, call, nCalls>>
    /\ UNCHANGED agentVars

\* new_avg as the plain mean of the old average and the new price
BuyNewAvg_Unweighted(existing, shares, exec_price) ==
    IF existing = {} THEN {exec_price}
    ELSE LET h == CHOOSE x \in existing : TRUE
         IN  RoundSet(h.avg_cost + exec_price, 2)

\* new_avg = round((old_shares * old_cost + shares * exec_price) / new_shares, 2),
\* or exec_price without a row; no value when new_shares is 0, where the
\* division raises ZeroDivisionError
BuyNewAvg(existing, shares, exec_price) ==
    IF existing = {} THEN {exec_price}
    ELSE LET h == CHOOSE x \in existing : TRUE
         IN  IF h.shares + shares = 0 THEN {}
             ELSE RoundSet(h.shares * h.avg_cost + shares * exec_price,
                           h.shares + shares)

\* new_shares = old_shares + shares, or shares without a row
BuyNewShares(existing, shares) ==
    IF existing = {} THEN shares
    ELSE (CHOOSE x \in existing : TRUE).shares + shares

\* lines 92-101: read the holding again, compute the new position
BuyGetHolding(p) ==
    /\ pc[p] = "buy_get_holding"
    /\ LET existing == get_holding(call[p].symbol)
           averages == BuyNewAvg(existing, call[p].shares, loc[p].exec_price)
       IN  IF averages = {}
           THEN Return(p, Outcome("raised"))
           ELSE \E new_avg \in averages :
                   Goto(p, "buy_update_holding",
                        [loc[p] EXCEPT
                           !.new_shares = BuyNewShares(existing, call[p].shares),
                           !.new_avg = new_avg])
    /\ UNCHANGED <<cash, portfolio, trades, risk_profile, call, wrote,
                   nCalls>>
    /\ UNCHANGED agentVars

\* line 103: write the holding
BuyUpdateHolding(p) ==
    /\ pc[p] = "buy_update_holding"
    /\ update_holding(p, call[p].symbol, loc[p].new_shares, loc[p].new_avg)
    /\ Goto(p, "buy_add_trade", loc[p])
    /\ UNCHANGED <<cash, trades, risk_profile, call, nCalls>>
    /\ UNCHANGED agentVars

\* lines 104-116: record the trade, return the success dict
BuyAddTrade(p) ==
    /\ pc[p] = "buy_add_trade"
    /\ add_trade(p, call[p].symbol, "buy", call[p].shares,
                 loc[p].exec_price, loc[p].total)
    /\ Return(p, [Outcome("success") EXCEPT
                    !.price = loc[p].exec_price, !.total = loc[p].total,
                    !.new_cash = loc[p].new_cash,
                    !.new_shares = loc[p].new_shares,
                    !.avg_cost = loc[p].new_avg])
    /\ UNCHANGED <<cash, portfolio, risk_profile, call, nCalls>>
    /\ UNCHANGED agentVars

----------------------------------------------------------------------------
(* execute_sell (trading.py 119-164) *)

\* pnl with the cost basis of one share in place of the shares sold
SellPnl_PerShare(total, avg_cost, shares) ==
    RoundSet(total * ShareScale - avg_cost * ShareScale, ShareScale)

\* pnl = round(total_proceeds - avg_cost * shares, 2)
SellPnl(total, avg_cost, shares) ==
    RoundSet(total * ShareScale - avg_cost * shares, ShareScale)

\* lines 122-127 without the comparison of line 126
SellGetHolding_NoShareCheck(p) ==
    /\ pc[p] = "sell_get_holding"
    /\ LET existing == get_holding(call[p].symbol)
       IN  IF existing = {} \/ \A h \in existing : h.shares <= 0
           THEN Return(p, Outcome("no_position"))
           ELSE LET h == CHOOSE x \in existing : TRUE
                IN  Goto(p, "sell_fetch_quotes",
                         [loc[p] EXCEPT !.old_shares = h.shares,
                                        !.old_avg = h.avg_cost])
    /\ UNCHANGED <<cash, portfolio, trades, risk_profile, call, wrote,
                   nCalls>>
    /\ UNCHANGED agentVars

\* lines 122-127: read the holding, check there is enough to sell
SellGetHolding(p) ==
    /\ pc[p] = "sell_get_holding"
    /\ LET existing == get_holding(call[p].symbol)
       IN  IF existing = {} \/ \A h \in existing : h.shares <= 0
           THEN Return(p, Outcome("no_position"))
           ELSE LET h == CHOOSE x \in existing : TRUE
                IN  IF call[p].shares > h.shares
                    THEN Return(p, Outcome("insufficient_shares"))
                    ELSE Goto(p, "sell_fetch_quotes",
                              [loc[p] EXCEPT !.old_shares = h.shares,
                                             !.old_avg = h.avg_cost])
    /\ UNCHANGED <<cash, portfolio, trades, risk_profile, call, wrote,
                   nCalls>>
    /\ UNCHANGED agentVars

\* lines 130-141: fetch the quote, price the order, compute the P&L
SellFetchQuotes(p) ==
    /\ pc[p] = "sell_fetch_quotes"
    /\ \E answer \in QuoteAnswers(call[p].symbol) :
          IF answer = {}
          THEN Return(p, Outcome("quote_unavailable"))
          ELSE \E price \in answer :
               \E exec_price \in SellExecPrice(price) :
               \E total \in OrderTotal(exec_price, call[p].shares) :
               \E pnl \in SellPnl(total, loc[p].old_avg, call[p].shares) :
                  Goto(p, "sell_get_cash",
                       [loc[p] EXCEPT !.exec_price = exec_price,
                                      !.total = total, !.pnl = pnl])
    /\ UNCHANGED <<cash, portfolio, trades, risk_profile, call, wrote,
                   nCalls>>
    /\ UNCHANGED agentVars

\* new_cash = round(cash + total_proceeds, 2): both are whole cents
SellNewCash(balance, total) == balance + total

\* lines 144-145: read the cash balance, compute new_cash
SellGetCash(p) ==
    /\ pc[p] = "sell_get_cash"
    /\ Goto(p, "sell_set_cash",
            [loc[p] EXCEPT !.cash = cash, !.new_cash = SellNewCash(cash, loc[p].total)])
    /\ UNCHANGED <<cash, portfolio, trades, risk_profile, call, wrote,
                   nCalls>>
    /\ UNCHANGED agentVars

\* remaining_shares = round(existing.shares - shares, 4)
SellRemaining(old_shares, shares) == old_shares - shares

\* lines 146-149: write the cash balance, compute the remainder
SellSetCash(p) ==
    /\ pc[p] = "sell_set_cash"
    /\ set_cash_balance(p, loc[p].new_cash)
    /\ Goto(p, "sell_update_holding",
            [loc[p] EXCEPT !.new_shares = SellRemaining(loc[p].old_shares,
                                                        call[p].shares)])
    /\ UNCHANGED <<portfolio, trades, risk_profile, call, nCalls>>
    /\ UNCHANGED agentVars

\* line 150: write the holding with the average cost read at line 122
SellUpdateHolding(p) ==
    /\ pc[p] = "sell_update_holding"
    /\ update_holding(p, call[p].symbol, loc[p].new_shares, loc[p].old_avg)
    /\ Goto(p, "sell_add_trade", loc[p])
    /\ UNCHANGED <<cash, trades, risk_profile, call, nCalls>>
    /\ UNCHANGED agentVars

\* lines 152-164: record the trade, return the success dict
SellAddTrade(p) ==
    /\ pc[p] = "sell_add_trade"
    /\ add_trade(p, call[p].symbol, "sell", call[p].shares,
                 loc[p].exec_price, loc[p].total)
    /\ Return(p, [Outcome("success") EXCEPT
                    !.price = loc[p].exec_price, !.total = loc[p].total,
                    !.pnl = loc[p].pnl, !.new_cash = loc[p].new_cash,
                    !.new_shares = loc[p].new_shares])
    /\ UNCHANGED <<cash, portfolio, risk_profile, call, nCalls>>
    /\ UNCHANGED agentVars

----------------------------------------------------------------------------
(* get_portfolio_summary (trading.py 167-236) *)

\* api_portfolio (main.py) / run_agent_cycle (agent.py): a summary is asked for
StartSummary(p) ==
    /\ pc[p] = "idle"
    /\ Numbered(p)
    /\ nCalls < MaxCalls
    /\ nCalls' = nCalls + 1
    /\ call' = [call EXCEPT ![p] = [NoCall EXCEPT !.op = "summary"]]
    /\ pc' = [pc EXCEPT ![p] = "sum_get_portfolio"]
    /\ loc' = [loc EXCEPT ![p] = NoLocals]
    /\ result' = [result EXCEPT ![p] = NoResult]
    /\ wrote' = [wrote EXCEPT ![p] = <<>>]
    /\ UNCHANGED <<cash, portfolio, trades, risk_profile>>
    /\ UNCHANGED agentVars

\* line 169: read the open positions
SumGetPortfolio(p) ==
    /\ pc[p] = "sum_get_portfolio"
    /\ Goto(p, "sum_get_cash", [loc[p] EXCEPT !.snap = get_portfolio])
    /\ UNCHANGED <<cash, portfolio, trades, risk_profile, call, wrote,
                   nCalls>>
    /\ UNCHANGED agentVars

\* lines 170-180: read the cash balance; without holdings return at once
SumGetCash(p) ==
    /\ pc[p] = "sum_get_cash"
    /\ IF DOMAIN loc[p].snap = {}
       THEN Return(p, [Outcome("summary") EXCEPT !.cash = cash,
                                                 !.total_value = cash])
       ELSE Goto(p, "sum_fetch_quotes", [loc[p] EXCEPT !.cash = cash])
    /\ UNCHANGED <<cash, portfolio, trades, risk_profile, call, wrote,
                   nCalls>>
    /\ UNCHANGED agentVars

\* lines 190-222 valuing a holding without a quote at a price of zero
Enrich_ZeroWhenUnquoted(symbol, h, answer, change_pct) ==
    LET cost_basis == Round(h.shares * h.avg_cost, ShareScale)
        current_price == IF answer # {} THEN CHOOSE q \in answer : TRUE ELSE 0
        market_value == Round(h.shares * current_price, ShareScale)
        pnl == market_value - cost_basis
    IN  [symbol |-> symbol, shares |-> h.shares, avg_cost |-> h.avg_cost,
         current_price |-> current_price, cost_basis |-> cost_basis,
         market_value |-> market_value, pnl |-> pnl,
         pnl_pct |-> IF cost_basis # 0
                     THEN Round(pnl * 100 * 100, cost_basis) ELSE 0,
         day_change_pct |-> IF answer # {} THEN change_pct ELSE 0]

\* lines 190-222: one enriched holding
Enrich(symbol, h, answer, change_pct) ==
    LET cost_basis == Round(h.shares * h.avg_cost, ShareScale)
        priced == answer # {}
        current_price == IF priced THEN CHOOSE q \in answer : TRUE ELSE h.avg_cost
        market_value == IF priced THEN Round(h.shares * current_price, ShareScale)
                        ELSE cost_basis
        pnl == IF priced THEN market_value - cost_basis ELSE 0
    IN  [symbol |-> symbol, shares |-> h.shares, avg_cost |-> h.avg_cost,
         current_price |-> current_price, cost_basis |-> cost_basis,
         market_value |-> market_value, pnl |-> pnl,
         pnl_pct |-> IF priced /\ cost_basis # 0
                     THEN Round(pnl * 100 * 100, cost_basis) ELSE 0,
         day_change_pct |-> IF priced THEN change_pct ELSE 0]

\* the rows of a table in ORDER BY symbol order
BySymbol(table) ==
    SelectSeq(SymbolOrder, LAMBDA s : s \in DOMAIN table)

\* the orders a sort by descending market_value that is not stable may give
AnyOrderByMarketValue(enriched) ==
    LET n == Len(enriched)
    IN  {[k \in 1..n |-> enriched[f[k]]] :
           f \in {g \in [1..n -> 1..n] :
                    /\ \A i, j \in 1..n : i # j => g[i] # g[j]
                    /\ \A i, j \in 1..n :
                          i < j => enriched[g[i]].market_value
                                      >= enriched[g[j]].market_value}}

\* sorted(enriched, key=market_value) without reverse=True
SortByMarketValue_Ascending(enriched) ==
    LET n == Len(enriched)
        before(i, j) ==
            \/ enriched[i].market_value < enriched[j].market_value
            \/ /\ enriched[i].market_value = enriched[j].market_value
               /\ i < j
        place(j) == 1 + Cardinality({i \in 1..n : before(i, j)})
    IN  [k \in 1..n |-> enriched[CHOOSE j \in 1..n : place(j) = k]]

\* sorted(enriched, key=market_value, reverse=True): stable, so holdings of
\* equal market value keep the order of the list they came in
SortByMarketValue(enriched) ==
    LET n == Len(enriched)
        before(i, j) ==
            \/ enriched[i].market_value > enriched[j].market_value
            \/ /\ enriched[i].market_value = enriched[j].market_value
               /\ i < j
        place(j) == 1 + Cardinality({i \in 1..n : before(i, j)})
    IN  [k \in 1..n |-> enriched[CHOOSE j \in 1..n : place(j) = k]]

\* lines 182-236: the summary dict
Summarize(snap, balance, answers, changes) ==
    LET order == BySymbol(snap)
        enriched == [k \in 1..Len(order) |->
                       Enrich(order[k], snap[order[k]],
                              answers[order[k]], changes[order[k]])]
        market(k) == enriched[k].market_value
        basis(k) == enriched[k].cost_basis
        total_market_value == SumOver(1..Len(order), market)
        total_cost_basis == SumOver(1..Len(order), basis)
        total_pnl == total_market_value - total_cost_basis
    IN  [Outcome("summary") EXCEPT
           !.cash = balance,
           !.holdings = SortByMarketValue(enriched),
           !.total_value = balance + total_market_value,
           !.total_invested = total_cost_basis,
           !.total_market_value = total_market_value,
           !.total_pnl = total_pnl,
           !.total_pnl_pct = IF total_cost_basis # 0
                             THEN Round(total_pnl * 100 * 100, total_cost_basis)
                             ELSE 0]

\* the day changes the quote source may report with its prices
ChangeAnswers(symbols) ==
    {c \in [symbols -> ChangePcts] :
        \A s \in symbols : s \notin OrderSymbols => c[s] = 0}

\* lines 183-236 storing the total value it computed as the cash balance
SumFetchQuotes_StoresTotal(p) ==
    /\ pc[p] = "sum_fetch_quotes"
    /\ \E answers \in FetchAnswers(DOMAIN loc[p].snap) :
       \E changes \in ChangeAnswers(DOMAIN loc[p].snap) :
          LET summary == Summarize(loc[p].snap, loc[p].cash, answers, changes)
          IN  /\ Return(p, summary)
              /\ set_cash_balance(p, summary.total_value)
    /\ UNCHANGED <<portfolio, trades, risk_profile, call, nCalls>>
    /\ UNCHANGED agentVars

\* lines 183-236 with a sort that orders holdings of equal market value
\* differently from one call to the next
SumFetchQuotes_UnstableSort(p) ==
    /\ pc[p] = "sum_fetch_quotes"
    /\ \E answers \in FetchAnswers(DOMAIN loc[p].snap) :
       \E changes \in ChangeAnswers(DOMAIN loc[p].snap) :
          LET summary == Summarize(loc[p].snap, loc[p].cash, answers, changes)
          IN  \E holdings \in AnyOrderByMarketValue(summary.holdings) :
                 Return(p, [summary EXCEPT !.holdings = holdings])
    /\ UNCHANGED <<cash, portfolio, trades, risk_profile, call, wrote,
                   nCalls>>
    /\ UNCHANGED agentVars

\* lines 183-236: quote the holdings, build the summary
SumFetchQuotes(p) ==
    /\ pc[p] = "sum_fetch_quotes"
    /\ \E answers \in FetchAnswers(DOMAIN loc[p].snap) :
       \E changes \in ChangeAnswers(DOMAIN loc[p].snap) :
          Return(p, Summarize(loc[p].snap, loc[p].cash, answers, changes))
    /\ UNCHANGED <<cash, portfolio, trades, risk_profile, call, wrote,
                   nCalls>>
    /\ UNCHANGED agentVars

----------------------------------------------------------------------------
(* Environment *)

StoreSteps ==
    {"buy_get_cash", "buy_get_risk_profile", "buy_get_portfolio",
     "buy_check_limits", "buy_set_cash", "buy_get_holding",
     "buy_update_holding", "buy_add_trade",
     "sell_get_holding", "sell_get_cash", "sell_set_cash",
     "sell_update_holding", "sell_add_trade",
     "sum_get_portfolio", "sum_get_cash"}

\* A database call raises (aiosqlite error) before it commits anything; no
\* try/except in trading.py catches it, so the call ends by the exception,
\* which execute_action / api_portfolio catch.
StoreFails(p) ==
    /\ pc[p] \in StoreSteps
    /\ Return(p, Outcome("raised"))
    /\ UNCHANGED <<cash, portfolio, trades, risk_profile, call, wrote, nCalls>>
    /\ UNCHANGED agentVars

\* api_update_settings (main.py) -> set_risk_profile (database.py)
SetRiskProfile(profile) ==
    /\ profile \in ProfileNames
    /\ nCalls < MaxCalls
    /\ nCalls' = nCalls + 1
    /\ risk_profile' = profile
    /\ UNCHANGED <<cash, portfolio, trades, pc, call, loc, result, wrote>>
    /\ UNCHANGED agentVars

\* api_reset (main.py) -> reset_db (database.py): the database file is
\* deleted and init_db seeds a new one; stop_agent only clears the loop's
\* flag, so the calls in flight go on against the new database
reset_db ==
    /\ nCalls < MaxCalls
    /\ nCalls' = nCalls + 1
    /\ cash' = FreshLedger.cash
    /\ portfolio' = FreshLedger.portfolio
    /\ trades' = FreshLedger.trades
    /\ risk_profile' = FreshLedger.risk_profile
    /\ thoughts' = <<>>
    /\ UNCHANGED <<pc, call, loc, result, wrote, running, loop, agent, stream>>

----------------------------------------------------------------------------

Next ==
    \/ \E p \in Tasks :
          \/ StartOrder(p)
          \/ BuyFetchQuotes(p)
          \/ BuyGetCash(p)
          \/ BuyGetRiskProfile(p)
          \/ BuyGetPortfolio(p)
          \/ BuyFetchAllQuotes(p)
          \/ BuyCheckLimits(p)
          \/ BuySetCash(p)
          \/ BuyGetHolding(p)
          \/ BuyUpdateHolding(p)
          \/ BuyAddTrade(p)
          \/ SellGetHolding(p)
          \/ SellFetchQuotes(p)
          \/ SellGetCash(p)
          \/ SellSetCash(p)
          \/ SellUpdateHolding(p)
          \/ SellAddTrade(p)
          \/ StartSummary(p)
          \/ SumGetPortfolio(p)
          \/ SumGetCash(p)
          \/ SumFetchQuotes(p)
          \/ StoreFails(p)
    \/ \E profile \in ProfileNames : SetRiskProfile(profile)
    \/ reset_db

Spec == Init /\ [][Next]_vars

----------------------------------------------------------------------------
(* The thought stream (main.py api_stream) over the thoughts table *)

\* limit of the query of one poll
StreamLimit == 10

\* add_thought: INSERT one row into thoughts; its id is the next integer
add_thought(thought_type) == thoughts' = Append(thoughts, thought_type)

\* get_thoughts: SELECT ... WHERE id > after_id ORDER BY created_at DESC
\* LIMIT limit, as the ids of the rows; created_at is the time of the
\* insert, so the newest row comes first
get_thoughts(limit, after_id) ==
    LET count == IF Len(thoughts) - after_id < limit
                 THEN Len(thoughts) - after_id ELSE limit
    IN  [k \in 1..count |-> Len(thoughts) - k + 1]

\* reversed(thoughts)
Reversed(rows) == [k \in 1..Len(rows) |-> rows[Len(rows) - k + 1]]

\* a cycle records a thought
StreamThink ==
    /\ Len(thoughts) < MaxThoughts
    /\ add_thought("thinking")
    /\ UNCHANGED <<cash, portfolio, trades, risk_profile, pc, call, loc, result,
                   wrote, nCalls, running, loop, agent, stream>>

\* event_generator, one turn of its loop: the rows after last_id, oldest
\* first, each sent to the client when its id is above last_id
StreamPoll ==
    LET rows == Reversed(get_thoughts(StreamLimit, stream.last_id))
        fresh == SelectSeq(rows, LAMBDA id : id > stream.last_id)
    IN  /\ fresh # <<>>
        /\ stream' = [last_id |-> fresh[Len(fresh)],
                      sent |-> stream.sent \o fresh]
        /\ UNCHANGED <<cash, portfolio, trades, risk_profile, pc, call, loc,
                       result, wrote, nCalls, thoughts, running, loop, agent>>

StreamInit ==
    /\ cash = FreshLedger.cash
    /\ portfolio = FreshLedger.portfolio
    /\ trades = FreshLedger.trades
    /\ risk_profile = FreshLedger.risk_profile
    /\ pc = [p \in Tasks |-> "idle"]
    /\ call = [p \in Tasks |-> NoCall]
    /\ loc = [p \in Tasks |-> NoLocals]
    /\ result = [p \in Tasks |-> NoResult]
    /\ wrote = [p \in Tasks |-> <<>>]
    /\ nCalls = 0
    /\ AgentOff

StreamNext == StreamThink \/ StreamPoll

StreamSpec == StreamInit /\ [][StreamNext]_vars

----------------------------------------------------------------------------
(* The scheduled agent (main.py _delayed_agent_start, agent.py              *)
(* start_agent_loop, run_agent_cycle, process_llm_response, execute_action) *)
(*                                                                         *)
(* loop.at is the await the scheduled task is suspended at: "delay" (the    *)
(* 10 s sleep before start_agent_loop), "hello" (the history query and the  *)
(* first thought), "cycle" (a run_agent_cycle), "sleep" (until the next     *)
(* session); "exited" after leaving the while loop, "failed_start" and      *)
(* "crashed" when an exception ended the task before or inside a cycle.     *)
(* agent[p].at is the await of the cycle of task p; calls, reports, failed  *)
(* and faults describe the action the cycle handled last: the calls of      *)
(* execute_buy / execute_sell made for it, the error thoughts stored for    *)
(* it, whether its order failed, and the thoughts that could not be stored. *)
(* An LLM response is taken as its action blocks, each a buy or a sell.     *)

\* the task whose cycles the scheduled loop runs
LoopTask == "cycle1"

\* the action blocks of a response: buys and sells of one quoted symbol
AgentOrders ==
    [op : {"buy", "sell"}, symbol : {"AAA"},
     shares : {n \in ShareCounts : n > 0}]

AgentFrame ==
    UNCHANGED <<cash, portfolio, trades, risk_profile, pc, call, loc, result,
                wrote, nCalls, running, stream>>

\* the while test of start_agent_loop (line 568) after a cycle has returned
AfterCycle == IF running THEN "sleep" ELSE "exited"

\* run_agent_cycle returns to its caller
CycleReturns(p, rec) ==
    /\ agent' = [agent EXCEPT ![p] = [rec EXCEPT !.at = "idle", !.todo = 0]]
    /\ loop' = IF p = LoopTask THEN [loop EXCEPT !.at = AfterCycle] ELSE loop

\* an exception leaves run_agent_cycle: start_agent_loop has no handler
CycleRaises(p, rec) ==
    /\ agent' = [agent EXCEPT ![p] = [rec EXCEPT !.at = "idle", !.todo = 0]]
    /\ loop' = IF p = LoopTask THEN [loop EXCEPT !.at = "crashed"] ELSE loop

\* process_llm_response after an action block is done: the next block, or
\* the end of the response and of the cycle
NextAction(p, rec) ==
    IF rec.todo > 1
    THEN /\ agent' = [agent EXCEPT ![p] = [rec EXCEPT !.at = "placing",
                                                      !.todo = @ - 1]]
         /\ UNCHANGED loop
    ELSE CycleReturns(p, rec)

\* start_agent_loop calls run_agent_cycle: the random skip returns at once,
\* otherwise the cycle awaits its greeting thought
BeginCycle ==
    /\ loop.cycles < MaxCycles
    /\ \/ /\ loop' = [loop EXCEPT !.cycles = @ + 1, !.at = AfterCycle]
          /\ UNCHANGED agent
       \/ /\ loop' = [loop EXCEPT !.cycles = @ + 1, !.at = "cycle"]
          /\ agent' = [agent EXCEPT ![LoopTask].at = "greet"]

\* _delayed_agent_start wakes and calls start_agent_loop: _running = True
LoopStart ==
    /\ loop.at = "delay"
    /\ running' = TRUE
    /\ loop' = [loop EXCEPT !.at = "hello"]
    /\ UNCHANGED <<cash, portfolio, trades, risk_profile, pc, call, loc, result,
                   wrote, nCalls, thoughts, agent, stream>>

\* start_agent_loop lines 531-565: the history query and the first thought
\* (outside any try), then the first cycle without a test of _running
LoopHello ==
    /\ loop.at = "hello"
    /\ \/ add_thought("system") /\ BeginCycle
       \/ /\ loop' = [loop EXCEPT !.at = "failed_start"]
          /\ UNCHANGED <<thoughts, agent>>
    /\ AgentFrame

\* asyncio.sleep returns (lines 580-588): leave when _running is false,
\* else run the cycle of the session
LoopWake ==
    /\ loop.at = "sleep"
    /\ IF running THEN BeginCycle
       ELSE loop' = [loop EXCEPT !.at = "exited"] /\ UNCHANGED agent
    /\ UNCHANGED thoughts
    /\ AgentFrame

\* stop_agent (agent.py 591-594)
stop_agent ==
    /\ running' = FALSE
    /\ loop' = [loop EXCEPT !.stopped = TRUE]

\* api_reset (main.py): stop_agent(), then reset_db deletes the database
\* file and init_db seeds a new one
api_reset ==
    /\ ~loop.stopped
    /\ stop_agent
    /\ cash' = FreshLedger.cash
    /\ portfolio' = FreshLedger.portfolio
    /\ trades' = FreshLedger.trades
    /\ risk_profile' = FreshLedger.risk_profile
    /\ thoughts' = <<>>
    /\ UNCHANGED <<pc, call, loc, result, wrote, nCalls, agent, stream>>

\* run_agent_cycle: the greeting thought
CycleGreet(p) ==
    /\ agent[p].at = "greet"
    /\ \/ /\ add_thought("system")
          /\ agent' = [agent EXCEPT ![p].at = "gather"]
       \/ /\ agent' = [agent EXCEPT ![p].at = "cycle_handler"]
          /\ UNCHANGED thoughts
    /\ UNCHANGED loop
    /\ AgentFrame

\* lines 238-255: the summary, the tables and the quotes are read; any of
\* the reads may raise
CycleGather(p) ==
    /\ agent[p].at = "gather"
    /\ \E at \in {"ask_llm", "cycle_handler"} :
          agent' = [agent EXCEPT ![p].at = at]
    /\ UNCHANGED <<thoughts, loop>>
    /\ AgentFrame

\* lines 257-261: the LLM answers with its action blocks, or raises
CycleAskLLM(p) ==
    /\ agent[p].at = "ask_llm"
    /\ \/ \E n \in 0..MaxActions :
             NextAction(p, [agent[p] EXCEPT !.todo = n + 1])
       \/ /\ agent' = [agent EXCEPT ![p].at = "cycle_handler"]
          /\ UNCHANGED loop
    /\ UNCHANGED thoughts
    /\ AgentFrame

\* execute_action lines 423-427 / 438-442: the "placing order" thought, then
\* the call of execute_buy or execute_sell with the shares of the block
ActionPlace(p) ==
    /\ agent[p].at = "placing"
    /\ pc[p] = "idle"
    /\ \/ /\ nCalls < MaxCalls
          /\ nCalls' = nCalls + 1
          /\ add_thought("trade")
          /\ \E o \in AgentOrders :
                /\ call' = [call EXCEPT ![p] = o]
                /\ pc' = [pc EXCEPT ![p] = IF o.op = "buy" THEN "buy_fetch_quotes"
                                           ELSE "sell_get_holding"]
          /\ loc' = [loc EXCEPT ![p] = NoLocals]
          /\ result' = [result EXCEPT ![p] = NoResult]
          /\ wrote' = [wrote EXCEPT ![p] = <<>>]
          /\ agent' = [agent EXCEPT ![p] =
                         [at |-> "order", todo |-> @.todo, calls |-> 1,
                          reports |-> 0, failed |-> FALSE, faults |-> 0]]
       \/ /\ agent' = [agent EXCEPT ![p] =
                         [at |-> "action_handler", todo |-> @.todo, calls |-> 0,
                          reports |-> 0, failed |-> FALSE, faults |-> 1]]
          /\ UNCHANGED <<thoughts, pc, call, loc, result, wrote, nCalls>>
    /\ UNCHANGED <<cash, portfolio, trades, risk_profile, running, loop, stream>>

\* the report of an order twice over
ActionReport_Twice(p) ==
    /\ agent[p].at = "order"
    /\ pc[p] = "idle"
    /\ result[p].kind \notin {"raised", "success"}
    /\ thoughts' = thoughts \o <<"error", "error">>
    /\ NextAction(p, [agent[p] EXCEPT !.failed = TRUE, !.reports = @ + 2])
    /\ AgentFrame

\* execute_action lines 428-436 / 443-453: the order has returned or raised;
\* a success is stored as a trade thought, a failure as one error thought
ActionReport(p) ==
    /\ agent[p].at = "order"
    /\ pc[p] = "idle"
    /\ LET kind == result[p].kind
           failed == kind # "success"
       IN  \/ /\ kind = "raised"
              /\ agent' = [agent EXCEPT ![p].at = "action_handler",
                                        ![p].failed = TRUE]
              /\ UNCHANGED <<thoughts, loop>>
           \/ /\ kind # "raised"
              /\ add_thought(IF failed THEN "error" ELSE "trade")
              /\ NextAction(p, [agent[p] EXCEPT
                                  !.failed = failed,
                                  !.reports = IF failed THEN @ + 1 ELSE @])
           \/ /\ kind # "raised"
              /\ agent' = [agent EXCEPT ![p].at = "action_handler",
                                        ![p].failed = failed,
                                        ![p].faults = @ + 1]
              /\ UNCHANGED <<thoughts, loop>>
    /\ AgentFrame

\* execute_action lines 520-523: except Exception stores one error thought
ActionHandler(p) ==
    /\ agent[p].at = "action_handler"
    /\ \/ /\ add_thought("error")
          /\ NextAction(p, [agent[p] EXCEPT !.reports = @ + 1])
       \/ /\ agent' = [agent EXCEPT ![p].at = "cycle_handler",
                                    ![p].faults = @ + 1]
          /\ UNCHANGED <<thoughts, loop>>
    /\ AgentFrame

\* run_agent_cycle lines 263-267: except Exception stores an error thought
\* and returns; when the thought cannot be stored the exception leaves
CycleHandler(p) ==
    /\ agent[p].at = "cycle_handler"
    /\ \/ add_thought("error") /\ CycleReturns(p, agent[p])
       \/ CycleRaises(p, agent[p]) /\ UNCHANGED thoughts
    /\ AgentFrame

AgentInit ==
    /\ cash = FreshLedger.cash
    /\ portfolio = FreshLedger.portfolio
    /\ trades = FreshLedger.trades
    /\ risk_profile = FreshLedger.risk_profile
    /\ pc = [p \in Tasks |-> "idle"]
    /\ call = [p \in Tasks |-> NoCall]
    /\ loc = [p \in Tasks |-> NoLocals]
    /\ result = [p \in Tasks |-> NoResult]
    /\ wrote = [p \in Tasks |-> <<>>]
    /\ nCalls = 0
    /\ thoughts = <<>>
    /\ running = FALSE
    /\ loop = [LoopOff EXCEPT !.at = "delay"]
    /\ agent = [p \in Tasks |-> NoCycle]
    /\ stream = NoStream

AgentNext ==
    \/ LoopStart
    \/ LoopHello
    \/ LoopWake
    \/ api_reset
    \/ \E p \in {LoopTask} :
          \/ CycleGreet(p)
          \/ CycleGather(p)
          \/ CycleAskLLM(p)
          \/ ActionPlace(p)
          \/ ActionReport(p)
          \/ ActionHandler(p)
          \/ CycleHandler(p)
          \/ BuyFetchQuotes(p)
          \/ BuyGetCash(p)
          \/ BuyGetRiskProfile(p)
          \/ BuyGetPortfolio(p)
          \/ BuyFetchAllQuotes(p)
          \/ BuyCheckLimits(p)
          \/ BuySetCash(p)
          \/ BuyGetHolding(p)
          \/ BuyUpdateHolding(p)
          \/ BuyAddTrade(p)
          \/ SellGetHolding(p)
          \/ SellFetchQuotes(p)
          \/ SellGetCash(p)
          \/ SellSetCash(p)
          \/ SellUpdateHolding(p)
          \/ SellAddTrade(p)
          \/ StoreFails(p)

AgentSpec == AgentInit /\ [][AgentNext]_vars

----------------------------------------------------------------------------
(* Restart of the service on the database file it left, FRESH_START unset  *)

\* init_db seeding the cash balance whatever the config table holds
SeededCash_Always(rows) == StartingBalance

\* init_db lines 95-103: the cash balance after init_db, given the
\* cash_balance rows the SELECT finds; a row is inserted only when none is
SeededCash(rows) ==
    IF rows = {} THEN StartingBalance ELSE CHOOSE c \in rows : TRUE

\* lifespan (main.py): the process that served the calls so far is gone, and
\* with it every task and the module state of agent.py; the new process runs
\* init_db, whose CREATE TABLE IF NOT EXISTS leaves the existing tables alone
lifespan ==
    /\ \E p \in Tasks : call[p].op # "none"
    /\ cash' = SeededCash({cash})
    /\ pc' = [p \in Tasks |-> "idle"]
    /\ call' = [p \in Tasks |-> NoCall]
    /\ loc' = [p \in Tasks |-> NoLocals]
    /\ result' = [p \in Tasks |-> NoResult]
    /\ wrote' = [p \in Tasks |-> <<>>]
    /\ running' = FALSE
    /\ loop' = LoopOff
    /\ agent' = [p \in Tasks |-> NoCycle]
    /\ stream' = NoStream
    /\ UNCHANGED <<portfolio, trades, risk_profile, nCalls, thoughts>>

RestartNext == Next \/ lifespan

RestartSpec == Init /\ [][RestartNext]_vars

----------------------------------------------------------------------------
(* The worked example: the ledger init_db seeds with the default starting  *)
(* balance, the moderate profile (stored, or the default of a missing      *)
(* row), and buys of 100 and of 50 whole shares of one symbol quoted 150.  *)

ScenarioShares == {100 * ShareScale, 50 * ShareScale}

ScenarioInit ==
    /\ cash = DefaultBalance
    /\ portfolio = EmptyTable
    /\ trades = <<>>
    /\ risk_profile \in {"unset", "moderate"}
    /\ pc = [p \in Tasks |-> "idle"]
    /\ call = [p \in Tasks |-> NoCall]
    /\ loc = [p \in Tasks |-> NoLocals]
    /\ result = [p \in Tasks |-> NoResult]
    /\ wrote = [p \in Tasks |-> <<>>]
    /\ nCalls = 0
    /\ AgentOff

\* execute_action (agent.py): a cycle places a buy of the example
ScenarioStart(p) ==
    /\ pc[p] = "idle"
    /\ Numbered(p)
    /\ nCalls < MaxCalls
    /\ nCalls' = nCalls + 1
    /\ \E symbol \in ScenarioSymbols, shares \in ScenarioShares :
          call' = [call EXCEPT ![p] =
                     [op |-> "buy", symbol |-> symbol, shares |-> shares]]
    /\ pc' = [pc EXCEPT ![p] = "buy_fetch_quotes"]
    /\ loc' = [loc EXCEPT ![p] = NoLocals]
    /\ result' = [result EXCEPT ![p] = NoResult]
    /\ wrote' = [wrote EXCEPT ![p] = <<>>]
    /\ UNCHANGED <<cash, portfolio, trades, risk_profile>>
    /\ UNCHANGED agentVars

ScenarioNext ==
    \E p \in Tasks :
       \/ ScenarioStart(p)
       \/ BuyFetchQuotes(p)
       \/ BuyGetCash(p)
       \/ BuyGetRiskProfile(p)
       \/ BuyGetPortfolio(p)
       \/ BuyFetchAllQuotes(p)
       \/ BuyCheckLimits(p)
       \/ BuySetCash(p)
       \/ BuyGetHolding(p)
       \/ BuyUpdateHolding(p)
       \/ BuyAddTrade(p)
       \/ StoreFails(p)

ScenarioSpec == ScenarioInit /\ [][ScenarioNext]_vars

----------------------------------------------------------------------------
(* The retried order: the ledger init_db seeds with a starting balance of  *)
(* 327.70, the safe profile, a buy of 30 shares of a symbol quoted 1.13,   *)
(* and buys of as many shares as a position rejection has reported.        *)

\* the share counts a cycle asks for: 30 shares, or the "max additional
\* shares" of a position rejection another cycle was given
RetryShares(p) ==
    {30 * ShareScale}
    \cup UNION {{n * ShareScale : n \in result[q].max_shares} :
                 q \in {t \in Tasks \ {p} : result[t].kind = "risk_position"}}

RetryInit ==
    /\ cash = RetryBalance
    /\ portfolio = EmptyTable
    /\ trades = <<>>
    /\ risk_profile = "safe"
    /\ pc = [p \in Tasks |-> "idle"]
    /\ call = [p \in Tasks |-> NoCall]
    /\ loc = [p \in Tasks |-> NoLocals]
    /\ result = [p \in Tasks |-> NoResult]
    /\ wrote = [p \in Tasks |-> <<>>]
    /\ nCalls = 0
    /\ AgentOff

\* execute_action (agent.py): a cycle places a buy, or retries one
RetryStart(p) ==
    /\ pc[p] = "idle"
    /\ Numbered(p)
    /\ nCalls < MaxCalls
    /\ nCalls' = nCalls + 1
    /\ \E symbol \in RetrySymbols, shares \in RetryShares(p) :
          call' = [call EXCEPT ![p] =
                     [op |-> "buy", symbol |-> symbol, shares |-> shares]]
    /\ pc' = [pc EXCEPT ![p] = "buy_fetch_quotes"]
    /\ loc' = [loc EXCEPT ![p] = NoLocals]
    /\ result' = [result EXCEPT ![p] = NoResult]
    /\ wrote' = [wrote EXCEPT ![p] = <<>>]
    /\ UNCHANGED <<cash, portfolio, trades, risk_profile>>
    /\ UNCHANGED agentVars

RetryNext ==
    \E p \in Tasks :
       \/ RetryStart(p)
       \/ BuyFetchQuotes(p)
       \/ BuyGetCash(p)
       \/ BuyGetRiskProfile(p)
       \/ BuyGetPortfolio(p)
       \/ BuyFetchAllQuotes(p)
       \/ BuyCheckLimits(p)
       \/ BuySetCash(p)
       \/ BuyGetHolding(p)
       \/ BuyUpdateHolding(p)
       \/ BuyAddTrade(p)
       \/ StoreFails(p)

RetrySpec == RetryInit /\ [][RetryNext]_vars

----------------------------------------------------------------------------
(* Orders on a portfolio one position short of max_holdings: from the      *)
(* empty portfolio the profile was set to "safe" and one unit of each of   *)
(* four filler symbols was bought, one order at a time.  The profile is    *)
(* not changed afterwards.                                                 *)

NearlyFullOrder == SubSeq(FillerOrder, 1, RISK_PROFILES["safe"].max_holdings - 1)

NearlyFullLedger ==
    [cash |-> StartingBalance - Len(NearlyFullOrder) * FillerTotal.total,
     portfolio |-> [s \in {NearlyFullOrder[k] : k \in DOMAIN NearlyFullOrder} |->
                      [shares |-> 1, avg_cost |-> FillerTotal.exec_price]],
     trades |-> [k \in DOMAIN NearlyFullOrder |->
                   [symbol |-> NearlyFullOrder[k], action |-> "buy", shares |-> 1,
                    price |-> FillerTotal.exec_price,
                    total |-> FillerTotal.total]],
     risk_profile |-> "safe"]

HoldingsInit ==
    /\ cash = NearlyFullLedger.cash
    /\ portfolio = NearlyFullLedger.portfolio
    /\ trades = NearlyFullLedger.trades
    /\ risk_profile = NearlyFullLedger.risk_profile
    /\ pc = [p \in Tasks |-> "idle"]
    /\ call = [p \in Tasks |-> NoCall]
    /\ loc = [p \in Tasks |-> NoLocals]
    /\ result = [p \in Tasks |-> NoResult]
    /\ wrote = [p \in Tasks |-> <<>>]
    /\ nCalls = 0
    /\ AgentOff

\* execute_action (agent.py): a cycle places one order for a positive
\* number of shares
HoldingsStart(p) ==
    /\ pc[p] = "idle"
    /\ Numbered(p)
    /\ nCalls < MaxCalls
    /\ nCalls' = nCalls + 1
    /\ \E op \in {"buy", "sell"}, symbol \in OrderSymbols,
          shares \in {n \in ShareCounts : n > 0} :
          /\ call' = [call EXCEPT ![p] =
                        [op |-> op, symbol |-> symbol, shares |-> shares]]
          /\ pc' = [pc EXCEPT ![p] =
                      IF op = "buy" THEN "buy_fetch_quotes" ELSE "sell_get_holding"]
    /\ loc' = [loc EXCEPT ![p] = NoLocals]
    /\ result' = [result EXCEPT ![p] = NoResult]
    /\ wrote' = [wrote EXCEPT ![p] = <<>>]
    /\ UNCHANGED <<cash, portfolio, trades, risk_profile>>
    /\ UNCHANGED agentVars

HoldingsNext ==
    \E p \in Tasks :
       \/ HoldingsStart(p)
       \/ BuyFetchQuotes(p)
       \/ BuyGetCash(p)
       \/ BuyGetRiskProfile(p)
       \/ BuyGetPortfolio(p)
       \/ BuyFetchAllQuotes(p)
       \/ BuyCheckLimits(p)
       \/ BuySetCash(p)
       \/ BuyGetHolding(p)
       \/ BuyUpdateHolding(p)
       \/ BuyAddTrade(p)
       \/ SellGetHolding(p)
       \/ SellFetchQuotes(p)
       \/ SellGetCash(p)
       \/ SellSetCash(p)
       \/ SellUpdateHolding(p)
       \/ SellAddTrade(p)
       \/ StoreFails(p)

HoldingsSpec == HoldingsInit /\ [][HoldingsNext]_vars

----------------------------------------------------------------------------
(* Vocabulary of the properties *)

OrderOps == {"buy", "sell"}

\* the call of task p ends in this step
Returns(p) == pc[p] # "idle" /\ pc'[p] = "idle"

\* the call of task p is in flight and has committed some of its writes
Torn(p) == pc[p] # "idle" /\ wrote[p] # <<>>

\* the awaits whose next step reads the cash balance or the holdings
ReadSteps ==
    {"buy_get_cash", "buy_get_portfolio", "buy_check_limits", "buy_get_holding",
     "sell_get_holding", "sell_get_cash", "sum_get_portfolio", "sum_get_cash"}

Writes(p, table) == Cardinality({i \in DOMAIN wrote[p] : wrote[p][i] = table})

TradeTotal(action) ==
    LET amount(i) == IF trades[i].action = action THEN trades[i].total ELSE 0
    IN  SumOver(DOMAIN trades, amount)

TradeShares(symbol, action) ==
    LET amount(i) == IF trades[i].action = action /\ trades[i].symbol = symbol
                     THEN trades[i].shares ELSE 0
    IN  SumOver(DOMAIN trades, amount)

HeldShares(symbol) ==
    IF symbol \in DOMAIN portfolio THEN portfolio[symbol].shares ELSE 0

\* the cash balance is the starting balance less the buys plus the sells logged
CashExplained == cash = StartingBalance - TradeTotal("buy") + TradeTotal("sell")

\* every position is the shares bought less the shares sold, as logged
SharesExplained ==
    \A s \in Symbols : HeldShares(s) = TradeShares(s, "buy") - TradeShares(s, "sell")

\* the buy of task p passes the last of its checks in this step
Accepts(p) == pc[p] = "buy_check_limits" /\ pc'[p] = "buy_set_cash"

\* total portfolio value on the cash and the open positions the buy read,
\* in units of 1/ShareScale cent
PreTradeValue(p) == loc[p].cash * ShareScale + loc[p].market_value

\* position_pct <= max_position_pct of the profile the buy read, where the
\* position is the shares held of the symbol at exec_price plus total_cost
PositionWithin(p) ==
    /\ PreTradeValue(p) > 0
    /\ (HeldShares(call[p].symbol) * loc[p].exec_price + loc[p].total * ShareScale) * 100
       <= RISK_PROFILES[loc[p].profile].max_position_pct * PreTradeValue(p)

\* cash_pct >= min_cash_pct of the profile the buy read, where cash_pct is
\* the cash left after total_cost over the pre-trade portfolio value
ReserveKept(p) ==
    /\ PreTradeValue(p) > 0
    /\ (loc[p].cash - loc[p].total) * ShareScale * 100
       >= RISK_PROFILES[loc[p].profile].min_cash_pct * PreTradeValue(p)

\* what the buy reads is what the ledger holds when it reads it
ReadsTheLedger(p) ==
    /\ (pc[p] = "buy_get_cash" /\ pc'[p] = "buy_get_risk_profile")
          => loc'[p].cash = cash
    /\ (pc[p] = "buy_get_risk_profile" /\ pc'[p] = "buy_get_portfolio")
          => loc'[p].profile =
                (IF risk_profile \in ProfileNames THEN risk_profile ELSE "moderate")
    /\ (pc[p] = "buy_get_portfolio" /\ pc'[p] = "buy_fetch_all_quotes")
          => loc'[p].snap = portfolio

----------------------------------------------------------------------------
(* C1 - as claimed: the cash write, the holding write and the trade append  *)
(* of an accepted order take effect as one unit, so no other operation      *)
(* reads the ledger while an order has committed only part of them.         *)
C1_CommitIsOneUnit ==
    \A p, q \in Tasks : (p # q /\ pc[q] \in ReadSteps) => ~Torn(p)

(* C2 - as claimed: orders are serialized at the ledger.  When the two      *)
(* cycles have each run one order and both were accepted, cash and holdings *)
(* are those of running the two orders one after the other: every accepted  *)
(* order's cash and share update is in the ledger, none lost.               *)
C2_OrdersSerialized ==
    ( /\ nCalls = 2
      /\ \A p \in Tasks : pc[p] = "idle" /\ result[p].kind = "success" )
    => (CashExplained /\ SharesExplained)

(* C3 - a rejected order (any of the seven rejections) returns without      *)
(* having written the cash balance, a holding or a trade: the returning     *)
(* step leaves the ledger as it is and no earlier step of the call wrote.   *)
C3_RejectedOrderWritesNothing ==
    [][\A p \in Tasks :
          (Returns(p) /\ result'[p].kind \in RejectKinds)
          => (ledger' = ledger /\ wrote[p] = <<>>)]_vars

C3_Witness ==
    /\ result["cycle1"].kind = "risk_cash_reserve"
    /\ trades # <<>>

(* C4 - as claimed: a call ended by a ledger-store failure has been rolled  *)
(* back (none of its writes is left committed) and the failure is returned  *)
(* as an outcome, not raised.                                               *)
C4_FailedCommitRolledBack ==
    \A p \in Tasks : result[p].kind = "raised" => wrote[p] = <<>>

(* C5 - the step that returns success from execute_buy / execute_sell       *)
(* appends one trade record carrying the order's symbol, side, shares,      *)
(* executed price and total, and it is the only trade the call appended; a  *)
(* call that returns a rejection appended none.                             *)
C5_OneTradePerSuccess ==
    [][\A p \in Tasks :
          (Returns(p) /\ call[p].op \in OrderOps) =>
             /\ result'[p].kind = "success" =>
                   /\ trades' = Append(trades,
                                   [symbol |-> call[p].symbol,
                                    action |-> call[p].op,
                                    shares |-> call[p].shares,
                                    price |-> result'[p].price,
                                    total |-> result'[p].total])
                   /\ Writes(p, "trade")' = 1
             /\ result'[p].kind \in RejectKinds =>
                   /\ trades' = trades
                   /\ Writes(p, "trade")' = 0]_vars

C5_Witness ==
    /\ result["cycle1"].kind = "success" /\ call["cycle1"].op = "buy"
    /\ result["cycle2"].kind = "success" /\ call["cycle2"].op = "sell"

(* C6 - no buy is accepted whose position_pct exceeds the max_position_pct  *)
(* of the active profile: when a buy passes its checks, (shares held of the *)
(* symbol valued at exec_price + total_cost) * 100 is at most               *)
(* max_position_pct * (pre-trade cash + value of the open positions), on    *)
(* the cash, profile and positions the buy read from the ledger.            *)
C6_PositionWithinLimit ==
    [][\A p \in Tasks :
          /\ ReadsTheLedger(p)
          /\ Accepts(p) => PositionWithin(p)]_vars

C6_Witness ==
    \E p \in Tasks :
       /\ pc[p] = "buy_set_cash"
       /\ HeldShares(call[p].symbol) > 0
       /\ loc[p].market_value > 0

(* C7 - no buy is accepted that leaves cash_pct below the min_cash_pct of   *)
(* the active profile: when a buy passes its checks, (cash - total_cost) *  *)
(* 100 is at least min_cash_pct * pre-trade portfolio value.                *)
C7_CashReserveKept ==
    [][\A p \in Tasks : Accepts(p) => ReserveKept(p)]_vars

C7_Witness ==
    \E p \in Tasks :
       /\ pc[p] = "buy_set_cash"
       /\ loc[p].market_value > loc[p].cash * ShareScale

\* the buy has read max_holdings open positions, none of them the symbol
AtMaxHoldings(p) ==
    /\ pc[p] \in {"buy_fetch_all_quotes", "buy_check_limits"}
    /\ call[p].symbol \notin DOMAIN loc[p].snap
    /\ Cardinality(DOMAIN loc[p].snap) = RISK_PROFILES[loc[p].profile].max_holdings

(* C8 - as claimed: a buy of a symbol not held, with max_holdings distinct  *)
(* positions open, is always rejected and the rejection it returns is the   *)
(* max_holdings one, never another kind.                                    *)
C8_AlwaysTheMaxHoldingsKind ==
    [][\A p \in Tasks :
          (AtMaxHoldings(p) /\ Returns(p) /\ result'[p].kind # "raised")
          => result'[p].kind = "risk_max_holdings"]_vars

(* C8 - amended: such a buy is never accepted; the rejection it returns is  *)
(* the position one when the position limit is exceeded, else the cash      *)
(* reserve one when the reserve is breached, and the max_holdings one       *)
(* exactly when both of those limits are met.                               *)
C8_NeverAcceptedAtMaxHoldings ==
    [][\A p \in Tasks :
          AtMaxHoldings(p) =>
             /\ pc'[p] # "buy_set_cash"
             /\ (Returns(p) /\ result'[p].kind # "raised") =>
                   /\ result'[p].kind \in
                         {"risk_position", "risk_cash_reserve", "risk_max_holdings"}
                   /\ result'[p].kind = "risk_position" <=> ~PositionWithin(p)
                   /\ result'[p].kind = "risk_max_holdings"
                         <=> (PositionWithin(p) /\ ReserveKept(p))]_vars

C8_Witness ==
    \E p \in Tasks :
       /\ result[p].kind = "risk_max_holdings"
       /\ call[p].symbol \notin DOMAIN portfolio
       /\ Cardinality(DOMAIN portfolio) = RISK_PROFILES["safe"].max_holdings

(* C9 - for every successful buy the cash balance it stores, and the        *)
(* new_cash it returns, is the balance it read from the ledger less         *)
(* total_cost, to the cent.                                                 *)
C9_CashDebitedByTotal ==
    [][\A p \in Tasks :
          /\ (pc[p] = "buy_get_cash" /\ pc'[p] = "buy_get_risk_profile")
                => loc'[p].cash = cash
          /\ (pc[p] = "buy_set_cash" /\ pc'[p] = "buy_get_holding")
                => cash' = loc[p].cash - loc[p].total
          /\ (Returns(p) /\ call[p].op = "buy" /\ result'[p].kind = "success")
                => /\ result'[p].new_cash = loc[p].cash - result'[p].total
                   /\ Writes(p, "cash") = 1]_vars

C9_Witness ==
    \E p \in Tasks :
       /\ call[p].op = "buy" /\ result[p].kind = "success"
       /\ result[p].price = 5501 /\ result[p].total = 1375
       /\ cash = result[p].new_cash
       /\ cash = StartingBalance - 1375

\* the buy of task p reads the holding and computes the new position
Averages(p) == pc[p] = "buy_get_holding" /\ pc'[p] = "buy_update_holding"

\* old_shares * old_avg + shares * exec_price, on the holding in the ledger
LotsValue(p) ==
    HeldShares(call[p].symbol) *
       (IF call[p].symbol \in DOMAIN portfolio
        THEN portfolio[call[p].symbol].avg_cost ELSE 0)
    + call[p].shares * loc[p].exec_price

\* the holding row the buy writes is the one it computed; update_holding
\* keeps no row for a share count that is not positive
WritesTheHolding(p) ==
    (pc[p] = "buy_update_holding" /\ pc'[p] = "buy_add_trade")
    => IF loc[p].new_shares > 0
       THEN /\ call[p].symbol \in DOMAIN portfolio'
            /\ portfolio'[call[p].symbol] =
                  [shares |-> loc[p].new_shares, avg_cost |-> loc[p].new_avg]
       ELSE call[p].symbol \notin DOMAIN portfolio'

Abs(x) == IF x < 0 THEN -x ELSE x

(* C10 - as claimed: a successful buy makes the share count old_shares +    *)
(* shares and the average cost exactly the quantity-weighted mean           *)
(* (old_shares * old_avg + shares * exec_price) / new_shares.               *)
C10_ExactWeightedMean ==
    [][\A p \in Tasks :
          /\ WritesTheHolding(p)
          /\ Averages(p) =>
                /\ loc'[p].new_shares = HeldShares(call[p].symbol) + call[p].shares
                /\ loc'[p].new_avg * loc'[p].new_shares = LotsValue(p)]_vars

(* C10 - amended: the share count is old_shares + shares (update_holding     *)
(* keeping no row when that is not positive) and the average cost is that   *)
(* weighted mean rounded to the cent (within half a cent of it), or         *)
(* exec_price when there was no prior holding.                              *)
C10_WeightedMeanToTheCent ==
    [][\A p \in Tasks :
          /\ WritesTheHolding(p)
          /\ Averages(p) =>
                /\ loc'[p].new_shares = HeldShares(call[p].symbol) + call[p].shares
                /\ 2 * Abs(loc'[p].new_avg * loc'[p].new_shares - LotsValue(p))
                      <= Abs(loc'[p].new_shares)
                /\ call[p].symbol \notin DOMAIN portfolio
                      => loc'[p].new_avg = loc[p].exec_price]_vars

C10_Witness ==
    \E p \in Tasks :
       /\ call[p].op = "buy" /\ result[p].kind = "success"
       /\ result[p].new_shares = 37 /\ result[p].avg_cost = 246
       /\ portfolio[call[p].symbol] = [shares |-> 37, avg_cost |-> 246]

\* the sell of task p writes the holding in this step
SellWrites(p) == pc[p] = "sell_update_holding" /\ pc'[p] = "sell_add_trade"

(* C11 - as claimed: every successful sell leaves strictly fewer shares of  *)
(* the symbol than the holding it read before selling.                      *)
C11_SellStrictlyDecreases ==
    [][\A p \in Tasks :
          SellWrites(p) => HeldShares(call[p].symbol)' < loc[p].old_shares]_vars

\* the sell of task p passes its holding checks in this step
SellReads(p) == pc[p] = "sell_get_holding" /\ pc'[p] = "sell_fetch_quotes"

\* the sell of task p prices the order and computes its P&L in this step
SellPrices(p) == pc[p] = "sell_fetch_quotes" /\ pc'[p] = "sell_get_cash"

\* total_proceeds - average_cost * sold shares, in units of 1/ShareScale cent
ExactPnl(p) == loc'[p].total * ShareScale - loc[p].old_avg * call[p].shares

\* a sell that leaves a remainder writes the holding with the shares left
\* and the average cost it read
KeepsAverage(p) ==
    /\ SellReads(p) =>
          /\ loc'[p].old_shares = portfolio[call[p].symbol].shares
          /\ loc'[p].old_avg = portfolio[call[p].symbol].avg_cost
    /\ (SellWrites(p) /\ call[p].shares < loc[p].old_shares) =>
          /\ call[p].symbol \in DOMAIN portfolio'
          /\ portfolio'[call[p].symbol] =
                [shares |-> loc[p].old_shares - call[p].shares,
                 avg_cost |-> loc[p].old_avg]
          /\ \A s \in DOMAIN portfolio \ {call[p].symbol} :
                s \in DOMAIN portfolio' /\ portfolio'[s] = portfolio[s]
    /\ (Returns(p) /\ call[p].op = "sell" /\ result'[p].kind = "success") =>
          result'[p].pnl = loc[p].pnl

(* C12 - as claimed: a successful sell that leaves a remainder keeps the    *)
(* average cost of the holding and changes only its shares, and the P&L it  *)
(* reports is exactly total_proceeds - average_cost * sold shares.          *)
C12_ExactRealizedPnl ==
    [][\A p \in Tasks :
          /\ KeepsAverage(p)
          /\ (SellPrices(p) /\ call[p].shares < loc[p].old_shares) =>
                loc'[p].pnl * ShareScale = ExactPnl(p)]_vars

(* C12 - amended: as above, with the reported P&L equal to total_proceeds - *)
(* average_cost * sold shares rounded to the cent (within half a cent).     *)
C12_RealizedPnlToTheCent ==
    [][\A p \in Tasks :
          /\ KeepsAverage(p)
          /\ (SellPrices(p) /\ call[p].shares < loc[p].old_shares) =>
                2 * Abs(loc'[p].pnl * ShareScale - ExactPnl(p)) <= ShareScale]_vars

C12_Witness ==
    \E p \in Tasks :
       /\ call[p] = [op |-> "sell", symbol |-> "ZZZ", shares |-> 1]
       /\ result[p].kind = "success"
       /\ result[p].total = 25 /\ result[p].pnl = 0
       /\ "ZZZ" \in DOMAIN portfolio
       /\ portfolio["ZZZ"] = [shares |-> 35, avg_cost |-> 101]

\* get_portfolio_summary reads the open positions in this step
SummaryReads(p) == pc[p] = "sum_get_portfolio" /\ pc'[p] = "sum_get_cash"

\* the symbols the summary returned by task p lists
Listed(p) == {result'[p].holdings[k].symbol : k \in DOMAIN result'[p].holdings}

(* C13 - a successful sell of exactly the shares held deletes the holding   *)
(* row of the symbol, and a get_portfolio_summary lists the symbols that    *)
(* have a row when it reads the holdings and no other, so none for a        *)
(* symbol sold out before.                                                  *)
C13_FullSellRemovesHolding ==
    [][\A p \in Tasks :
          /\ (SellWrites(p) /\ call[p].shares = loc[p].old_shares) =>
                (call[p].symbol \notin DOMAIN portfolio' /\ Writes(p, "holding")' = 1)
          /\ SummaryReads(p) => DOMAIN loc'[p].snap = DOMAIN portfolio
          /\ (Returns(p) /\ result'[p].kind = "summary") =>
                Listed(p) = DOMAIN loc[p].snap]_vars

C13_Witness ==
    /\ call["cycle1"] = [op |-> "sell", symbol |-> "ZZZ", shares |-> 36]
    /\ result["cycle1"].kind = "success" /\ result["cycle1"].new_shares = 0
    /\ "ZZZ" \notin DOMAIN portfolio
    /\ call["cycle2"].op = "summary" /\ result["cycle2"].kind = "summary"
    /\ result["cycle2"].holdings = <<>>
    /\ result["cycle2"].cash = cash /\ cash > StartingBalance - 36

(* C14 - in every state of the ledger every holding row has shares > 0: no  *)
(* row is stored with zero or negative shares.                              *)
C14_HoldingsArePositive ==
    \A s \in DOMAIN portfolio : portfolio[s].shares > 0

C14_Witness ==
    \E p \in Tasks :
       /\ call[p].op = "buy" /\ result[p].kind = "success"
       /\ result[p].new_shares < 0
       /\ Writes(p, "holding") = 1
       /\ call[p].symbol \notin DOMAIN portfolio

\* task p is about to check a sell of more shares than the symbol's row holds
Oversells(p) ==
    /\ pc[p] = "sell_get_holding"
    /\ call[p].symbol \in DOMAIN portfolio
    /\ call[p].shares > portfolio[call[p].symbol].shares

(* C15 - a sell of more shares than are held is rejected as insufficient    *)
(* shares and writes nothing; the share count a sell writes is the shares   *)
(* it read less the shares sold and is never negative.                      *)
C15_OversellRejected ==
    [][\A p \in Tasks :
          /\ (Oversells(p) /\ pc'[p] # pc[p] /\ result'[p].kind # "raised") =>
                /\ Returns(p)
                /\ result'[p].kind = "insufficient_shares"
                /\ ledger' = ledger
                /\ wrote[p] = <<>>
          /\ SellWrites(p) =>
                /\ HeldShares(call[p].symbol)' = loc[p].old_shares - call[p].shares
                /\ HeldShares(call[p].symbol)' >= 0]_vars

C15_Witness ==
    \E p \in Tasks :
       /\ call[p].op = "sell" /\ result[p].kind = "insufficient_shares"
       /\ call[p].symbol \in DOMAIN portfolio
       /\ 0 < portfolio[call[p].symbol].shares
       /\ portfolio[call[p].symbol].shares < call[p].shares

\* the symbols the quote source never prices
Unpriced == {s \in OrderSymbols : PricesOf[s] = {}}

\* task p is at the await of the quote of its order
FetchesQuote(p) == pc[p] \in {"buy_fetch_quotes", "sell_fetch_quotes"}

(* C16 - as claimed: every buy and every sell of a symbol the quote source  *)
(* does not price is rejected as quote unavailable, the ledger unchanged.   *)
C16_AlwaysQuoteUnavailable ==
    [][\A p \in Tasks :
          (Returns(p) /\ call[p].op \in OrderOps /\ call[p].symbol \in Unpriced
             /\ result'[p].kind # "raised")
          => /\ result'[p].kind = "quote_unavailable"
             /\ ledger' = ledger /\ wrote[p] = <<>>]_vars

(* C16 - amended: an order whose quote fetch finds no price is rejected as  *)
(* quote unavailable and writes nothing; a buy of an unpriced symbol always *)
(* ends so, a sell of one ends so when the holding covers the shares and    *)
(* otherwise as no position or insufficient shares, checked first.          *)
C16_QuoteUnavailableAfterHoldingChecks ==
    [][\A p \in Tasks :
          /\ (FetchesQuote(p) /\ Returns(p)) =>
                /\ result'[p].kind = "quote_unavailable"
                /\ ledger' = ledger /\ wrote[p] = <<>>
          /\ (FetchesQuote(p) /\ call[p].symbol \in Unpriced /\ pc'[p] # pc[p]) =>
                Returns(p)
          /\ (Returns(p) /\ call[p].op = "buy" /\ call[p].symbol \in Unpriced) =>
                result'[p].kind = "quote_unavailable"
          /\ (Returns(p) /\ call[p].op = "sell" /\ call[p].symbol \in Unpriced
                /\ result'[p].kind # "raised") =>
                /\ ledger' = ledger /\ wrote[p] = <<>>
                /\ result'[p].kind =
                      IF call[p].symbol \notin DOMAIN portfolio THEN "no_position"
                      ELSE IF call[p].shares > portfolio[call[p].symbol].shares
                      THEN "insufficient_shares"
                      ELSE "quote_unavailable"]_vars

C16_Witness ==
    \E p, q \in Tasks :
       /\ call[p].op = "sell" /\ result[p].kind = "quote_unavailable"
       /\ call[p].symbol \in DOMAIN portfolio
       /\ call[p].shares = portfolio[call[p].symbol].shares
       /\ call[q] = [op |-> "buy", symbol |-> "ZZZZ", shares |-> 36]
       /\ result[q].kind = "quote_unavailable"

\* no call of execute_buy or execute_sell is between its first read and its
\* return
NoOrderRunning == \A p \in Tasks : pc[p] = "idle"

(* C17 - whenever no order is mid-execution, the cash balance is the        *)
(* starting balance less the totals of the recorded buys plus the totals of *)
(* the recorded sells, whatever the sequence or interleaving of orders.     *)
C17_CashMatchesAuditTrail == NoOrderRunning => CashExplained

(* C18 - whenever no order is mid-execution, the shares held of every       *)
(* symbol are the shares of its recorded buys less those of its recorded    *)
(* sells, and the shares sold do not exceed the shares bought.              *)
C18_HoldingsMatchAuditTrail ==
    NoOrderRunning =>
       /\ SharesExplained
       /\ \A s \in Symbols : TradeShares(s, "sell") <= TradeShares(s, "buy")

\* the buy of 100 shares of the example, placed first and running alone
FirstBuy(p) ==
    /\ nCalls = 1
    /\ call[p].op = "buy" /\ call[p].symbol \in ScenarioSymbols
    /\ call[p].shares = 100 * ShareScale

\* the call of task p ends in this step otherwise than by a database error
\* or for want of a quote
Answers(p) == Returns(p) /\ result'[p].kind \notin {"raised", "quote_unavailable"}

(* C19 - as claimed: from cash 100,000, no holdings and the moderate        *)
(* profile, the buy of 100 shares quoted 150 is accepted with executed      *)
(* price 150.015 and total cost 15,001.50.                                  *)
C19_ExecutedAtUnroundedPrice ==
    [][\A p \in Tasks :
          (FirstBuy(p) /\ Answers(p))
          => /\ result'[p].kind = "success"
             /\ result'[p].price * 10 = 150015
             /\ result'[p].total * 10 = 15001500]_vars

\* task p buys 50 more shares and task q has bought the 100 shares before:
\* the ledger is as that buy left it, and p has read its cash and holdings
SecondBuy(p, q) ==
    /\ p # q
    /\ pc[q] = "idle" /\ result[q].kind = "success"
    /\ call[q].op = "buy" /\ call[q].symbol \in ScenarioSymbols
    /\ call[q].shares = 100 * ShareScale
    /\ call[p].op = "buy" /\ call[p].symbol = call[q].symbol
    /\ call[p].shares = 50 * ShareScale
    /\ pc[p] = "buy_check_limits"
    /\ loc[p].cash = DefaultBalance - result[q].total /\ cash = loc[p].cash
    /\ loc[p].snap = portfolio /\ Len(trades) = 1
    /\ portfolio = [s \in {call[q].symbol} |->
                      [shares |-> call[q].shares, avg_cost |-> result[q].price]]

(* C20 - after the accepted buy of 100 shares quoted 150 from cash 100,000  *)
(* under the moderate profile, a buy of 50 more shares of the symbol at the *)
(* same quote is rejected for the position limit and writes nothing.        *)
C20_SecondBuyOverPositionLimit ==
    [][\A p, q \in Tasks :
          (SecondBuy(p, q) /\ pc'[p] # pc[p] /\ result'[p].kind # "raised")
          => /\ Returns(p)
             /\ result'[p].kind = "risk_position"
             /\ ledger' = ledger /\ wrote[p] = <<>>]_vars

C20_Witness ==
    \E p, q \in Tasks :
       /\ p # q /\ pc[p] = "idle" /\ pc[q] = "idle"
       /\ call[q] = [op |-> "buy", symbol |-> "AAPL", shares |-> 100 * ShareScale]
       /\ result[q].kind = "success" /\ result[q].total = 1500100
       /\ call[p] = [op |-> "buy", symbol |-> "AAPL", shares |-> 50 * ShareScale]
       /\ result[p].kind = "risk_position" /\ result[p].max_shares = {33}
       /\ cash = 8499900 /\ Len(trades) = 1
       /\ portfolio = [s \in {"AAPL"} |->
                         [shares |-> 100 * ShareScale, avg_cost |-> 15001]]

\* the call of execute_sell of task p takes a step, not ended by a database
\* error
SellSteps(p) ==
    /\ call[p].op = "sell" /\ pc[p] # "idle" /\ pc'[p] # pc[p]
    /\ result'[p].kind # "raised"

\* the outcomes execute_sell has: none of them is a risk-limit rejection
SellOutcomes == {"no_position", "insufficient_shares", "quote_unavailable", "success"}

(* C21 - risk limits apply to buys only: what a sell does is fixed by the   *)
(* holding, the quote and the cash it reads, whatever the risk profile (it  *)
(* is rejected exactly for a missing holding, too few shares or a missing   *)
(* quote, and leaves the profile alone), and a successful sell adds no      *)
(* holding and does not decrease the cash it read.                          *)
C21_SellsIgnoreRiskLimits ==
    [][\A p \in Tasks :
          SellSteps(p) =>
             /\ risk_profile' = risk_profile
             /\ Returns(p) => result'[p].kind \in SellOutcomes
             /\ pc[p] = "sell_get_holding" =>
                   (Returns(p) <=> \/ HeldShares(call[p].symbol) <= 0
                                   \/ call[p].shares > HeldShares(call[p].symbol))
             /\ pc[p] = "sell_set_cash" =>
                   /\ cash' = loc[p].cash + loc[p].total
                   /\ cash' >= loc[p].cash
             /\ pc[p] = "sell_update_holding" =>
                   DOMAIN portfolio' \subseteq DOMAIN portfolio \cup {call[p].symbol}]_vars

\* the call of get_portfolio_summary of task p starts or takes a step
SummarySteps(p) ==
    \/ call'[p].op = "summary" /\ pc[p] = "idle" /\ pc'[p] # "idle"
    \/ call[p].op = "summary" /\ pc[p] # "idle" /\ pc'[p] # pc[p]

(* C22 - get_portfolio_summary is read-only: no step of it, from its call   *)
(* to its return, changes the cash balance, a holding, the trade log or the *)
(* risk profile, and it commits to no table.                                *)
C22_SummaryIsReadOnly ==
    [][\A p \in Tasks :
          SummarySteps(p) =>
             /\ ledger' = ledger
             /\ risk_profile' = risk_profile
             /\ wrote'[p] = <<>>]_vars

C22_Witness ==
    \E p \in Tasks :
       /\ call[p].op = "summary" /\ pc[p] = "idle"
       /\ result[p].kind = "summary"
       /\ Len(result[p].holdings) = 1
       /\ result[p].holdings[1].symbol = "ZZZ"
       /\ result[p].total_value > result[p].cash
       /\ result[p].cash = cash
       /\ portfolio = OpenLedger.portfolio /\ trades = OpenLedger.trades

\* what a returned summary shows of the ledger and the quotes it was built
\* from: the cash, and per symbol the shares, the average cost, the price
\* used and the day change
Inputs(summary) ==
    [cash |-> summary.cash,
     rows |-> {[symbol |-> h.symbol, shares |-> h.shares, avg_cost |-> h.avg_cost,
                current_price |-> h.current_price,
                day_change_pct |-> h.day_change_pct] :
                   h \in {summary.holdings[k] : k \in DOMAIN summary.holdings}}]

SummaryBuilds(p) == pc[p] = "sum_fetch_quotes" /\ pc'[p] # pc[p]

\* the quotes and day changes under which the summary task p returns in this
\* step is the one the code builds
GivenQuotes(p) ==
    {q \in [answers : FetchAnswers(DOMAIN loc[p].snap),
            changes : ChangeAnswers(DOMAIN loc[p].snap)] :
        result'[p] = Summarize(loc[p].snap, loc[p].cash, q.answers, q.changes)}

\* the row of symbol s in the summary task p returns in this step
Row(p, s) ==
    LET k == CHOOSE i \in DOMAIN result'[p].holdings :
                result'[p].holdings[i].symbol = s
    IN  result'[p].holdings[k]

\* the row is valued by the fallback: at its average cost, flat
AtCost(h) ==
    /\ h.current_price = h.avg_cost /\ h.market_value = h.cost_basis
    /\ h.pnl = 0 /\ h.pnl_pct = 0 /\ h.day_change_pct = 0

\* the row is valued at the live quote, to the cent
AtQuote(h, answer, change_pct) ==
    /\ h.current_price \in answer /\ h.day_change_pct = change_pct
    /\ 2 * Abs(h.market_value * ShareScale - h.shares * h.current_price)
          <= ShareScale
    /\ h.pnl = h.market_value - h.cost_basis

(* C24 - get_portfolio_summary always returns a summary with one row per    *)
(* holding it read; a holding without a quote is valued at its average cost *)
(* with pnl 0 and day change 0, and every holding with a quote at that      *)
(* quote, with the day change the quote reports.                            *)
C24_UnquotedHoldingAtCost ==
    [][\A p \in Tasks :
          SummaryBuilds(p) =>
             /\ Returns(p) /\ result'[p].kind = "summary"
             /\ Listed(p) = DOMAIN loc[p].snap
             /\ Len(result'[p].holdings) = Cardinality(DOMAIN loc[p].snap)
             /\ GivenQuotes(p) # {}
             /\ \A q \in GivenQuotes(p) : \A s \in DOMAIN loc[p].snap :
                   /\ Row(p, s).shares = loc[p].snap[s].shares
                   /\ Row(p, s).avg_cost = loc[p].snap[s].avg_cost
                   /\ IF q.answers[s] = {} THEN AtCost(Row(p, s))
                      ELSE AtQuote(Row(p, s), q.answers[s], q.changes[s])]_vars

C24_Witness ==
    \E p \in Tasks :
       /\ pc[p] = "idle" /\ result[p].kind = "summary"
       /\ Len(result[p].holdings) = 2
       /\ \E i, j \in DOMAIN result[p].holdings :
             /\ result[p].holdings[i].symbol = "AAA"
             /\ result[p].holdings[i].avg_cost = 5501
             /\ AtCost(result[p].holdings[i])
             /\ result[p].holdings[j].symbol = "ZZZ"
             /\ result[p].holdings[j].current_price = 101
             /\ result[p].holdings[j].day_change_pct = 150
       /\ result[p].total_market_value = 1375 + 909

(* C25 - the summary output tells a holding valued by the missing-quote     *)
(* fallback from a holding with a live quote equal to its average cost and  *)
(* no day change: the same output never arises both with and without a      *)
(* quote for a holding.                                                     *)
C25_FallbackIsFlagged ==
    [][\A p \in Tasks :
          SummaryBuilds(p) =>
             \A q1, q2 \in GivenQuotes(p) : \A s \in DOMAIN loc[p].snap :
                (q1.answers[s] = {}) <=> (q2.answers[s] = {})]_vars

\* the place of a symbol in ascending symbol order
SymbolRank(s) == CHOOSE i \in DOMAIN SymbolOrder : SymbolOrder[i] = s

(* C26 - the holdings of a returned summary are in descending order of      *)
(* market value, and holdings of equal market value in ascending order of   *)
(* symbol.                                                                  *)
C26_HoldingsByDescendingValue ==
    [][\A p \in Tasks :
          (Returns(p) /\ result'[p].kind = "summary") =>
             \A i, j \in DOMAIN result'[p].holdings :
                i < j =>
                   LET a == result'[p].holdings[i]
                       b == result'[p].holdings[j]
                   IN  \/ a.market_value > b.market_value
                       \/ /\ a.market_value = b.market_value
                          /\ SymbolRank(a.symbol) < SymbolRank(b.symbol)]_vars

C26_Witness ==
    \E p \in Tasks :
       /\ pc[p] = "idle" /\ result[p].kind = "summary"
       /\ Len(result[p].holdings) = 2
       /\ result[p].holdings[1].symbol = "ZZZ"
       /\ result[p].holdings[1].market_value = 909
       /\ result[p].holdings[2].symbol = "AAA"
       /\ result[p].holdings[2].market_value = 900

\* the buy of task p is given its quote and prices the order in this step
BuyPrices(p) == pc[p] = "buy_fetch_quotes" /\ pc'[p] = "buy_get_cash"

\* the quoted prices from which the buy / the sell of task p computes the
\* executed price it has after this step
BuyQuotes(p) ==
    {q \in PricesOf[call[p].symbol] : loc'[p].exec_price \in BuyExecPrice(q)}

SellQuotes(p) ==
    {q \in PricesOf[call[p].symbol] : loc'[p].exec_price \in SellExecPrice(q)}

(* C27 - the executed price is never favourable to the trader: a buy is     *)
(* priced at or above the quote it was given and a sell at or below it, and *)
(* that price is the one the order returns and records.                     *)
C27_ExecutionNeverFavourable ==
    [][\A p \in Tasks :
          /\ BuyPrices(p) =>
                /\ BuyQuotes(p) # {}
                /\ \A q \in BuyQuotes(p) : loc'[p].exec_price >= q
          /\ SellPrices(p) =>
                /\ SellQuotes(p) # {}
                /\ \A q \in SellQuotes(p) : loc'[p].exec_price <= q
          /\ (Returns(p) /\ result'[p].kind = "success") =>
                /\ result'[p].price = loc[p].exec_price
                /\ trades'[Len(trades')].price = loc[p].exec_price]_vars

C27_Witness ==
    \E p, q \in Tasks :
       /\ call[p] = [op |-> "buy", symbol |-> "AAA", shares |-> 1]
       /\ result[p].kind = "success" /\ result[p].price = 5501
       /\ call[q] = [op |-> "sell", symbol |-> "AAA", shares |-> 1]
       /\ result[q].kind = "success" /\ result[q].price = 5499
       /\ Len(trades) = 2

\* the buy of task p reads the cash balance and tests total_cost against it
\* in this step
BuyChecksCash(p) ==
    pc[p] = "buy_get_cash" /\ pc'[p] # pc[p] /\ result'[p].kind # "raised"

(* C28 - a buy whose total cost exceeds the cash balance, and no other, is  *)
(* rejected there for insufficient cash, writing nothing, and the rejection *)
(* reports floor(cash / exec_price) whole shares as the most affordable,    *)
(* also when that is 0.                                                     *)
C28_RejectionReportsAffordableShares ==
    [][\A p \in Tasks :
          BuyChecksCash(p) =>
             /\ loc[p].total > cash <=>
                   (Returns(p) /\ result'[p].kind = "insufficient_cash")
             /\ Returns(p) =>
                   /\ result'[p].max_shares = {cash \div loc[p].exec_price}
                   /\ ledger' = ledger /\ wrote[p] = <<>>]_vars

\* the buy of task p applies the risk limits in this step and does not end
\* by a database error
BuyChecksLimits(p) ==
    pc[p] = "buy_check_limits" /\ pc'[p] # pc[p] /\ result'[p].kind # "raised"

\* task p retries the buy task q was refused for the position limit: the same
\* symbol, the share count q was told, the ledger q found
Retries(p, q) ==
    /\ p # q /\ pc[q] = "idle" /\ result[q].kind = "risk_position"
    /\ call[p].op = "buy" /\ call[q].op = "buy"
    /\ call[p].symbol = call[q].symbol
    /\ call[p].shares \in {n * ShareScale : n \in result[q].max_shares}
    /\ wrote[p] = <<>> /\ trades = <<>>

\* n more whole shares at the executed price keep the position of the symbol
\* within the limit of the profile the buy of task p read
Fits(p, n) ==
    (HeldShares(call[p].symbol) * loc[p].exec_price
        + n * ShareScale * loc[p].exec_price) * 100
      <= Limits(loc[p].profile).max_position_pct * PreTradeValue(p)

(* C29 - the "max additional shares" of a position rejection satisfies the  *)
(* limit: a buy of that many shares on the same ledger and quotes is not    *)
(* rejected for the position limit; and the count reported is 0 exactly     *)
(* when not one more whole share fits.                                      *)
C29_ReportedSharesPassTheLimit ==
    [][\A p \in Tasks :
          BuyChecksLimits(p) =>
             /\ \A q \in Tasks :
                   Retries(p, q) =>
                      ~(Returns(p) /\ result'[p].kind = "risk_position")
             /\ (Returns(p) /\ result'[p].kind = "risk_position") =>
                   (result'[p].max_shares = {0} <=> ~Fits(p, 1))]_vars

\* the trade log after the step begins with the whole log before it
LogExtends ==
    /\ Len(trades') >= Len(trades)
    /\ SubSeq(trades', 1, Len(trades)) = trades

(* C30 - the trade log is append-only: no step of the program modifies or  *)
(* deletes a trade once recorded, so the log at a later time extends the   *)
(* log at any earlier time.                                                *)
C30_TradeLogIsAppendOnly == [][LogExtends]_vars

\* the profile whose limits the program applies for the stored value: the
\* value itself when it names a profile, "moderate" otherwise
ActiveProfile ==
    IF risk_profile \in {"safe", "moderate", "aggressive"} THEN risk_profile
    ELSE "moderate"

\* the open positions the buy of task p has read, the symbol of the order
\* left out
OtherHoldings(p) ==
    {s \in DOMAIN loc[p].snap : loc[p].snap[s].shares > 0} \ {call[p].symbol}

\* the symbol of the order is among the open positions the buy has read
AlreadyHeld(p) ==
    /\ call[p].symbol \in DOMAIN loc[p].snap
    /\ loc[p].snap[call[p].symbol].shares > 0

(* C33 - a buy applies the limits of the active profile: safe 10/30/5,     *)
(* moderate 20/15/10, aggressive 35/5/15 (max position %, min cash %, max  *)
(* holdings); the moderate limits apply when no profile is stored or the   *)
(* stored value is not one of the three names.                             *)
C33_LimitsOfActiveProfile ==
    [][\A p \in Tasks :
          LET bound == [safe       |-> <<10, 30, 5>>,
                        moderate   |-> <<20, 15, 10>>,
                        aggressive |-> <<35, 5, 15>>]
              b == bound[loc[p].profile]
              position == HeldShares(call[p].symbol) * loc[p].exec_price
                             + loc[p].total * ShareScale
              left == (loc[p].cash - loc[p].total) * ShareScale
              kind == result'[p].kind
          IN  /\ (pc[p] = "buy_get_risk_profile" /\ pc'[p] = "buy_get_portfolio")
                    => loc'[p].profile = ActiveProfile
              /\ BuyChecksLimits(p) =>
                    /\ loc[p].profile \in DOMAIN bound
                    /\ Accepts(p) =>
                          /\ PreTradeValue(p) > 0
                          /\ position * 100 <= b[1] * PreTradeValue(p)
                          /\ left * 100 >= b[2] * PreTradeValue(p)
                          /\ AlreadyHeld(p) \/ Cardinality(OtherHoldings(p)) < b[3]
                    /\ (Returns(p) /\ kind = "risk_position") =>
                          \/ PreTradeValue(p) <= 0
                          \/ position * 100 >= b[1] * PreTradeValue(p)
                    /\ (Returns(p) /\ kind = "risk_cash_reserve") =>
                          \/ PreTradeValue(p) <= 0
                          \/ left * 100 <= b[2] * PreTradeValue(p)
                    /\ (Returns(p) /\ kind = "risk_max_holdings") =>
                          /\ ~AlreadyHeld(p)
                          /\ Cardinality(OtherHoldings(p)) >= b[3]
       /\ \A name \in {"unset", "custom", ""} :
             Limits(name) = [max_position_pct |-> 20, min_cash_pct |-> 15,
                             max_holdings |-> 10]]_vars

\* a buy of a sixth symbol has passed its checks under the moderate profile:
\* the safe profile would have refused it
C33_Witness ==
    \E p \in Tasks :
       /\ pc[p] = "buy_set_cash"
       /\ loc[p].profile = "moderate"
       /\ ~AlreadyHeld(p)
       /\ Cardinality(OtherHoldings(p)) = 5

(* C34 - the cash balance is never negative, in any state reached by any   *)
(* sequence or interleaving of buy and sell orders from a non-negative     *)
(* starting balance.                                                       *)
C34_CashNeverNegative == cash >= 0

\* task p takes a step of the order it has placed
OrderSteps(p) ==
    call[p].op \in {"buy", "sell"} /\ pc[p] # "idle" /\ pc'[p] # pc[p]

(* C35 - an order whose share count is zero or negative changes neither    *)
(* cash nor holdings and records no trade; every recorded trade has a      *)
(* positive share count.                                                   *)
C35_NonPositiveOrderChangesNothing ==
    [][/\ \A p \in Tasks :
             (OrderSteps(p) /\ call[p].shares <= 0) => ledger' = ledger
       /\ \A i \in DOMAIN trades' : trades'[i].shares > 0]_vars

\* distinct_symbols of the ledger: the symbols held with shares > 0
DistinctHeld == {s \in DOMAIN portfolio : portfolio[s].shares > 0}

(* C36 - while the risk profile stays fixed, the number of distinct        *)
(* symbols held never exceeds the max_holdings of that profile, in any     *)
(* state reached by any sequence or interleaving of orders.                *)
C36_HoldingsWithinMax ==
    Cardinality(DistinctHeld) <= Limits(get_risk_profile).max_holdings

\* the service is restarted in this step: no task of the old process is left
Restarts == call # call' /\ call' = [p \in Tasks |-> NoCall]

(* C39 - the cash balance is seeded only once: init_db run again on an     *)
(* existing ledger (a restart without FRESH_START) leaves cash, holdings   *)
(* and trades unchanged.                                                   *)
C39_RestartKeepsLedger ==
    [][Restarts => (ledger' = ledger /\ risk_profile' = risk_profile)]_vars

\* the service has been restarted on a ledger that an order of the previous
\* process had changed
C39_Witness ==
    /\ call = [p \in Tasks |-> NoCall]
    /\ cash # StartingBalance
    /\ \E i \in DOMAIN trades : trades[i].symbol = "AAA"

(* C38 - the thought stream delivers every recorded thought to the client  *)
(* exactly once and in increasing id order: what has been sent is the ids  *)
(* 1, 2, ... up to the last one sent, however many thoughts are recorded   *)
(* between two polls.                                                      *)
C38_EveryThoughtOnceInOrder ==
    stream.sent = [i \in 1..stream.last_id |-> i]

\* the cycle of task p is through with the action block it handled last
ActionDone(p) ==
    /\ agent[p].at \in {"idle", "placing", "cycle_handler"}
    /\ agent[p].calls + agent[p].faults > 0

C32_LoopSurvivesTheCycle == loop.at # "crashed"

(* C37 - once stop_agent has been called the scheduled loop starts no      *)
(* further cycle: start_agent_loop does not call run_agent_cycle again.    *)
C37_NoCycleAfterStop ==
    [][loop.stopped => loop'.cycles = loop.cycles]_vars

====
